---- MODULE Spec2Model ----
(***************************************************************************)
(* Fee-Tracker: the proof-of-history chain, the fee-event ledger, the      *)
(* batch indexer, the realtime tracker/daemon and the transaction          *)
(* classifier, modelled from the TypeScript sources.                       *)
(*                                                                         *)
(* Encodings.  An optional value (slot?: number, signature | null) is a    *)
(* sequence of length 0 or 1.  A SHA-256 digest is the tuple of the joined *)
(* fields (collision-free, as the "|"-joined text is for base58/decimal    *)
(* fields); every hash value is therefore a tuple, the genesis hash the    *)
(* empty one.                                                              *)
(***************************************************************************)
EXTENDS Integers, Sequences, FiniteSets, TLC

VARIABLES
    \* ---- PoHChainManager and the poh_records table (src/lib/proof-of-history.ts)
    pohRecords,      \* rows of poh_records for the token, in insertion order
    lastSequence,    \* PoHChainManager.lastSequence
    lastHash,        \* PoHChainManager.lastHash
    pohInitialized,  \* initialize() has been awaited on the current manager
    addOutcome,      \* how the last addEvent ended: "none" | "returned" | "threw"
    persistFailures, \* number of addEvent calls whose persist step failed
    \* ---- verifyChain applied to a supplied record list
    vRecords,        \* a chain produced by successive appends
    vTampered,       \* the list handed to verifyChain
    vField,          \* "none" | "intact" | "hash" | "prevHash" | "sequence"
    vIndex,          \* 0-based index (sequence order) of the changed record
    vResult,         \* what verifyChain returned
    \* ---- classifyTransaction applied to one parsed transaction
    clsTx,           \* the transaction handed to classifyTransaction
    clsPhase,        \* "input" | "done"
    clsResult,       \* what classifyTransaction returned (<<>> is null)
    \* ---- the chain, the fee_events / tokens tables, one batch run, the daemon
    history,         \* number of transactions of the creator vault on chain
    feeEvents,       \* rows of fee_events, in insertion order
    tokenStats,      \* the aggregate columns of the token's row
    lastWrite,       \* the last createFeeEvent call: who, signature, outcome
    bPc,             \* indexToken: "idle" | "group" | "event" | "recalc" | "returned"
    bNew,            \* newSignatures
    bIndex,          \* i, the offset of the current group
    bParsed,         \* transactions of the current group still to classify
    bAllEvents,      \* allEvents.length
    bError,          \* the run returned { error }
    bFailure,        \* what failed in the run: "none" | "history" | "fetch" | "write"
    runs,            \* batch runs started
    fetchFailures,   \* upstream fetches that failed
    writeFailures,   \* fee-event writes that failed for a non-duplicate reason
    daemonStarted,   \* the realtime daemon tracks the token
    trkLastSequence, \* the tracker's PoHChainManager.lastSequence
    trkLastHash,     \* the tracker's PoHChainManager.lastHash
    recentSignatures,\* WebSocketTracker.recentSignatures
    rtLast,          \* the last transaction whose notification was handled
    rtCount,         \* notifications handled
    arrivals,        \* times new transactions landed on chain
    \* ---- the realtime handlers, one per balance-change notification
    handlers,        \* per notification: position and locals of its handler
    \* ---- calculateEventStats against the ledger, on one list of events
    statsEvents,     \* the list of classified events
    statsPhase,      \* "idle" | "input" | "done"
    statsResult,     \* what calculateEventStats returned
    statsLedger,     \* the aggregate after appending the list to an empty ledger
    \* ---- calculateBurnPercentage on one pair of totals
    pctCollected, pctBurned,
    pctPhase,        \* "idle" | "input" | "done"
    pctResult,       \* the returned percentage, in hundredths of a percent
    \* ---- exportChainToJSON / importChainFromJSON on one list of records
    exportRecords,   \* the records handed to exportChainToJSON
    exportPhase,     \* "idle" | "input" | "exported" | "imported"
    exportJson,      \* the exported document
    importedRecords, \* what importChainFromJSON returned
    \* ---- WebSocketTracker: connection state and the calls in flight
    tracker,         \* isRunning, connectionState, reconnectAttempts, isReconnecting,
                     \* reconnectTimeout, heartbeatInterval, bcSubscriptionId
    trackerPc,       \* where start, stop, forceReconnect, the reconnect-timer
                     \* callback and the heartbeat tick are suspended
    stopCalled,      \* stop() has been called in this execution
    stopReturned,    \* stop() has returned and start() was not called since
    \* ---- WebSocketTracker: deduplication and gap recovery on one vault
    gap,             \* chain head, recentSignatures, lastSignatureSeen, events emitted
    \* ---- runIndexer over a list of mints
    indexerRun,
    \* ---- withRetry around one upstream call
    retryCall,
    \* ---- detectFeeModel and the addresses tracked after it
    detection

pohVars == <<pohRecords, lastSequence, lastHash, pohInitialized, addOutcome, persistFailures>>
verVars == <<vRecords, vTampered, vField, vIndex, vResult>>
clsVars == <<clsTx, clsPhase, clsResult>>
batchVars == <<bPc, bNew, bIndex, bParsed, bAllEvents, bError, bFailure, runs,
               fetchFailures, writeFailures>>
storeVars == <<history, arrivals, feeEvents, tokenStats, lastWrite>>
daemonVars == <<daemonStarted, trkLastSequence, trkLastHash, recentSignatures, rtLast, rtCount>>
ledgerVars == <<storeVars, batchVars, daemonVars>>
statsVars == <<statsEvents, statsPhase, statsResult, statsLedger>>
pctVars == <<pctCollected, pctBurned, pctPhase, pctResult>>
exportVars == <<exportRecords, exportPhase, exportJson, importedRecords>>
connVars == <<tracker, trackerPc, stopCalled, stopReturned>>
auxVars == <<gap, indexerRun, retryCall, detection>>
vars == <<pohVars, verVars, clsVars, ledgerVars, handlers, statsVars, pctVars, exportVars, connVars, auxVars>>

(***************************************************************************)
(* Bounds of the model.                                                    *)
(***************************************************************************)
MaxChain == 3            \* records appended to one token's chain
MaxPersistFailures == 1  \* addEvent calls whose persist step fails
MaxVerifyLen == 3        \* length of the chains handed to verifyChain
MaxTransfers == 3        \* native transfers in a classified transaction
MaxHistory == 11         \* transactions of the creator vault
MaxArrivals == 2         \* times new transactions land on chain
MaxRuns == 1             \* batch runs
MaxFetchFailures == 1    \* failing upstream fetches
MaxWriteFailures == 1    \* failing fee-event writes
RecentBlockTimes == {0, 100, 200}   \* block time of the newest signature; 0: null
MaxMints == 3             \* mints in one batch run
MaxGapTx == 3             \* vault transactions in the gap-recovery model
MaxReconnects == 2        \* reconnect cycles in the gap-recovery model
MaxRetries == 2           \* reconnectConfig.maxRetries of the tracker
MaxAmount == 12           \* largest total handed to calculateBurnPercentage
MaxExport == 2            \* records in an exported chain
MaxEvents == 3            \* events in a list handed to calculateEventStats
MaxNotifications == 2     \* notifications handled concurrently
MaxRealtime == 1         \* notifications handled by the daemon

(***************************************************************************)
(* Proof-of-history records                                                *)
(***************************************************************************)
TokenMint == "mintA"
TokenSymbol == "ASDF"
GENESIS_HASH == <<>>
ForgedHash == <<"forged">>

\* record.slot?.toString() || "0": an absent slot and slot 0 give the same text.
SlotText(slot) == IF slot = <<>> THEN 0 ELSE IF slot[1] = 0 THEN 0 ELSE slot[1]

generateHash(record) ==
    << record.sequence, record.prevHash, record.timestamp, SlotText(record.slot),
       record.eventType, record.vault, record.tokenMint, record.amountLamports,
       record.signature >>

verifyRecordHash(record) == record.hash = generateHash(record)

\* Array.prototype.sort with (a, b) => a.sequence - b.sequence: a stable sort.
RECURSIVE InsertBySequence(_, _)
InsertBySequence(r, sorted) ==
    IF sorted = <<>> THEN <<r>>
    ELSE IF r.sequence < Head(sorted).sequence THEN <<r>> \o sorted
    ELSE <<Head(sorted)>> \o InsertBySequence(r, Tail(sorted))

RECURSIVE SortBySequence(_)
SortBySequence(records) ==
    IF records = <<>> THEN <<>>
    ELSE InsertBySequence(records[Len(records)],
                          SortBySequence(SubSeq(records, 1, Len(records) - 1)))

VerifyOk == [valid |-> TRUE, invalidAt |-> <<>>, error |-> "none"]
VerifyBad(i, why) == [valid |-> FALSE, invalidAt |-> <<i>>, error |-> why]

\* The genesis test of verifyChain on the first sorted record.
GenesisLinkBroken(first) == first.prevHash # GENESIS_HASH /\ first.sequence = 1

\* The for loop of verifyChain from (0-based) index i.
RECURSIVE VerifyFrom(_, _)
VerifyFrom(sorted, i) ==
    IF i >= Len(sorted) THEN VerifyOk
    ELSE LET record == sorted[i + 1] IN
         IF ~verifyRecordHash(record) THEN VerifyBad(i, "Hash mismatch")
         ELSE IF i > 0 /\ record.prevHash # sorted[i].hash
              THEN VerifyBad(i, "Chain link broken")
         ELSE IF i > 0 /\ record.sequence # sorted[i].sequence + 1
              THEN VerifyBad(i, "Sequence gap detected")
         ELSE VerifyFrom(sorted, i + 1)

verifyChain(records) ==
    IF Len(records) = 0 THEN VerifyOk
    ELSE LET sorted == SortBySequence(records) IN
         IF GenesisLinkBroken(sorted[1])
         THEN VerifyBad(0, "First record does not link to genesis hash")
         ELSE VerifyFrom(sorted, 0)

\* The events the orchestrators hand to addEvent, and the clock readings.
PoHEvents ==
    { [eventType |-> "collect",  vault |-> "BC",      amountLamports |-> 5, signature |-> "sigA", slot |-> <<7>>],
      [eventType |-> "withdraw", vault |-> "BC",      amountLamports |-> 3, signature |-> "sigB", slot |-> <<>>],
      [eventType |-> "burn",     vault |-> "UNKNOWN", amountLamports |-> 3, signature |-> "sigC", slot |-> <<0>>],
      [eventType |-> "collect",  vault |-> "AMM",     amountLamports |-> 0, signature |-> "sigA", slot |-> <<8>>] }
Timestamps == {1000, 1001}

\* addEvent: the record built from the manager's tail, the event and new Date().
NextSequence(lastSeq) == lastSeq + 1

BuildRecord(lastSeq, prevHash, mint, event, timestamp) ==
    LET recordData ==
            [sequence |-> NextSequence(lastSeq), prevHash |-> prevHash,
             timestamp |-> timestamp, slot |-> event.slot,
             eventType |-> event.eventType, vault |-> event.vault,
             tokenMint |-> mint, tokenSymbol |-> TokenSymbol,
             amountLamports |-> event.amountLamports, signature |-> event.signature]
    IN  [sequence |-> recordData.sequence, hash |-> generateHash(recordData),
         prevHash |-> recordData.prevHash, timestamp |-> recordData.timestamp,
         slot |-> recordData.slot, eventType |-> recordData.eventType,
         vault |-> recordData.vault, tokenMint |-> recordData.tokenMint,
         tokenSymbol |-> recordData.tokenSymbol,
         amountLamports |-> recordData.amountLamports,
         signature |-> recordData.signature]

\* poh_records_token_mint_sequence_key and poh_records_hash_key.
PoHUniqueViolation(rows, record) ==
    \E i \in DOMAIN rows :
        \/ rows[i].tokenMint = record.tokenMint /\ rows[i].sequence = record.sequence
        \/ rows[i].hash = record.hash

\* The in-memory tail after the awaited create: the two assignments that follow
\* it are skipped when it throws.
TailAfterAlways(persisted, old, new) == new
TailAfterCreate(persisted, old, new) == IF persisted THEN new ELSE old

\* findFirst({ where: { tokenMint }, orderBy: { sequence: "desc" } })
LastRecordOf(rows) ==
    IF rows = <<>> THEN <<>>
    ELSE LET sorted == SortBySequence(rows) IN <<sorted[Len(sorted)]>>

\* getFullChain: findMany ordered by sequence ascending.
getFullChain(rows) == SortBySequence(rows)

PoHInit ==
    /\ pohRecords = <<>>
    /\ lastSequence = 0
    /\ lastHash = GENESIS_HASH
    /\ pohInitialized = FALSE
    /\ addOutcome = "none"
    /\ persistFailures = 0

\* PoHChainManager.initialize
Initialize ==
    /\ ~pohInitialized
    /\ LET lastRecord == LastRecordOf(pohRecords) IN
        /\ lastHash' = IF lastRecord # <<>> THEN lastRecord[1].hash ELSE lastHash
        /\ lastSequence' = IF lastRecord # <<>> THEN lastRecord[1].sequence ELSE lastSequence
    /\ pohInitialized' = TRUE
    /\ UNCHANGED <<pohRecords, addOutcome, persistFailures>>

\* PoHChainManager.addEvent, awaited; dbOk is whether the store accepts the write.
AddEvent(event, timestamp, dbOk) ==
    /\ pohInitialized
    /\ Len(pohRecords) < MaxChain
    /\ dbOk \/ persistFailures < MaxPersistFailures
    /\ LET record == BuildRecord(lastSequence, lastHash, TokenMint, event, timestamp)
           persisted == dbOk /\ ~PoHUniqueViolation(pohRecords, record)
       IN  /\ pohRecords' = IF persisted THEN Append(pohRecords, record) ELSE pohRecords
           /\ lastHash' = TailAfterCreate(persisted, lastHash, record.hash)
           /\ lastSequence' = TailAfterCreate(persisted, lastSequence, record.sequence)
           /\ addOutcome' = IF persisted THEN "returned" ELSE "threw"
           /\ persistFailures' = IF persisted THEN persistFailures ELSE persistFailures + 1
    /\ UNCHANGED pohInitialized

\* new PoHChainManager(mint) after a process restart: the tail starts at genesis.
NewManager ==
    /\ pohInitialized
    /\ lastHash' = GENESIS_HASH
    /\ lastSequence' = 0
    /\ pohInitialized' = FALSE
    /\ addOutcome' = "none"
    /\ UNCHANGED <<pohRecords, persistFailures>>

NextPoH ==
    \/ Initialize /\ UNCHANGED <<verVars, clsVars, ledgerVars, handlers, statsVars, pctVars, exportVars, connVars, auxVars>>
    \/ (\E event \in PoHEvents, timestamp \in Timestamps, dbOk \in BOOLEAN :
            AddEvent(event, timestamp, dbOk)) /\ UNCHANGED <<verVars, clsVars, ledgerVars, handlers, statsVars, pctVars, exportVars, connVars, auxVars>>
    \/ NewManager /\ UNCHANGED <<verVars, clsVars, ledgerVars, handlers, statsVars, pctVars, exportVars, connVars, auxVars>>

(***************************************************************************)
(* verifyChain over supplied lists                                         *)
(***************************************************************************)
VerIdle ==
    /\ vRecords = <<>>
    /\ vTampered = <<>>
    /\ vField = "none"
    /\ vIndex = 0
    /\ vResult = VerifyOk

\* One more append to the chain under inspection.
VAppend(event, timestamp) ==
    /\ vField = "none"
    /\ Len(vRecords) < MaxVerifyLen
    /\ LET tailSeq == IF vRecords = <<>> THEN 0 ELSE vRecords[Len(vRecords)].sequence
           tailHash == IF vRecords = <<>> THEN GENESIS_HASH ELSE vRecords[Len(vRecords)].hash
       IN  vRecords' = Append(vRecords, BuildRecord(tailSeq, tailHash, TokenMint, event, timestamp))
    /\ UNCHANGED <<vTampered, vField, vIndex, vResult>>

HashValues(records) == {GENESIS_HASH, ForgedHash} \cup {records[i].hash : i \in DOMAIN records}
SequenceValues(records) == 0 .. (Len(records) + 2)

VVerifyIntact ==
    /\ vField = "none"
    /\ vTampered' = vRecords
    /\ vField' = "intact"
    /\ vIndex' = 0
    /\ vResult' = verifyChain(vRecords)
    /\ UNCHANGED vRecords

VTamper(field, i, value) ==
    /\ vField = "none"
    /\ i \in DOMAIN vRecords
    /\ vRecords[i][field] # value
    /\ vTampered' = [vRecords EXCEPT ![i][field] = value]
    /\ vField' = field
    /\ vIndex' = i - 1
    /\ vResult' = verifyChain(vTampered')
    /\ UNCHANGED vRecords

\* verifyChain on the chain without its first k records.
VTruncate(k) ==
    /\ vField = "none"
    /\ k \in 1 .. Len(vRecords) - 1
    /\ vTampered' = SubSeq(vRecords, k + 1, Len(vRecords))
    /\ vField' = "truncated"
    /\ vIndex' = 0
    /\ vResult' = verifyChain(vTampered')
    /\ UNCHANGED vRecords

NextVerify ==
    \/ (\E k \in 1 .. MaxVerifyLen : VTruncate(k))
        /\ UNCHANGED <<pohVars, clsVars, ledgerVars, handlers, statsVars, pctVars, exportVars, connVars, auxVars>>
    \/ (\E event \in PoHEvents : VAppend(event, 1000)) /\ UNCHANGED <<pohVars, clsVars, ledgerVars, handlers, statsVars, pctVars, exportVars, connVars, auxVars>>
    \/ VVerifyIntact /\ UNCHANGED <<pohVars, clsVars, ledgerVars, handlers, statsVars, pctVars, exportVars, connVars, auxVars>>
    \/ (\E i \in 1 .. MaxVerifyLen, h \in HashValues(vRecords) : VTamper("hash", i, h))
        /\ UNCHANGED <<pohVars, clsVars, ledgerVars, handlers, statsVars, pctVars, exportVars, connVars, auxVars>>
    \/ (\E i \in 1 .. MaxVerifyLen, h \in HashValues(vRecords) : VTamper("prevHash", i, h))
        /\ UNCHANGED <<pohVars, clsVars, ledgerVars, handlers, statsVars, pctVars, exportVars, connVars, auxVars>>
    \/ (\E i \in 1 .. MaxVerifyLen, s \in SequenceValues(vRecords) : VTamper("sequence", i, s))
        /\ UNCHANGED <<pohVars, clsVars, ledgerVars, handlers, statsVars, pctVars, exportVars, connVars, auxVars>>

(***************************************************************************)
(* Transaction classifier (src/lib/classifier.ts)                          *)
(***************************************************************************)
JUPITER_V6_PROGRAM_ID == "JUP6LkbZbjS1jKKwapdHNy74zcZ3tLUZoi5QNyVTaV4"
RAYDIUM_AMM_PROGRAM_ID == "675kPX9MHTjS2zt1qfr1NYHuzeLXfQM9H24wFSUt1Mp8"
TOKEN_PROGRAM_ID == "TokenkegQfeZyiNwAJbNbGKPFXCWuBvf9Ss623VQ5DA"
BURN_ADDRESS == "1nc1nerator11111111111111111111111111111111"
Undefined == "<undefined>"      \* an absent optional string field

CreatorVault == "vault"
CreatorWallet == "wallet"
OtherAddress == "other"
OtherMint == "mintB"

\* Upstream amount values: an integer-valued number, a number with a fractional
\* part (val is its floor), a pure-digit string denoting val, anything else.
Num(n) == [kind |-> "number", val |-> n]
Fraction(n) == [kind |-> "fraction", val |-> n]
Digits(n) == [kind |-> "digits", val |-> n]
Malformed == [kind |-> "other", val |-> 0]

\* safeBigInt: BigInt(Math.floor(number)), BigInt(digit string), otherwise 0n.
safeBigInt(value) ==
    IF value.kind \in {"number", "fraction"} THEN value.val
    ELSE IF value.kind = "digits" THEN value.val
    ELSE 0

\* Array.prototype.find: the first index satisfying the test, 0 when none does.
FirstOf(indices) == IF indices = {} THEN 0 ELSE CHOOSE i \in indices : \A j \in indices : i <= j

\* description.toLowerCase() includes "swap", "jupiter" or "raydium".
SwapDescriptions == {"Swap 1 SOL for ASDF", "JUPITER route", "raydium pool deposit"}

\* (HasSwapAlways: the variant that reports a swap for every transaction.)
HasSwapAlways(tx) == TRUE
hasSwapInstruction(tx) ==
    LET hasJupiter == \E i \in DOMAIN tx.accountData : tx.accountData[i] = JUPITER_V6_PROGRAM_ID
        hasRaydium == \E i \in DOMAIN tx.accountData : tx.accountData[i] = RAYDIUM_AMM_PROGRAM_ID
    IN  IF hasJupiter \/ hasRaydium THEN TRUE
        ELSE IF \E i \in DOMAIN tx.instructions :
                    tx.instructions[i].programId \in {JUPITER_V6_PROGRAM_ID, RAYDIUM_AMM_PROGRAM_ID}
             THEN TRUE
        ELSE tx.description \in SwapDescriptions

\* !t.toUserAccount
Falsy(text) == text \in {"", Undefined}

\* findBurnInTransaction: <<>> is null, <<amount>> is { amount }.
\* (FindBurnWithoutInstruction: the variant that skips the burn-instruction test.)
FindBurnWithoutInstruction(tx, tokenMint) ==
    LET tt == tx.tokenTransfers
        toBurnAddress == FirstOf({i \in DOMAIN tt :
                                    /\ tt[i].mint = tokenMint
                                    /\ (tt[i].toUserAccount = BURN_ADDRESS \/ tt[i].toTokenAccount = "")})
    IN  IF toBurnAddress # 0 THEN <<safeBigInt(tt[toBurnAddress].tokenAmount)>>
        ELSE IF tx.burnEvent # <<>> THEN <<safeBigInt(tx.burnEvent[1])>>
        ELSE <<>>
findBurnInTransaction(tx, tokenMint) ==
    LET tt == tx.tokenTransfers
        burnIx == \E i \in DOMAIN tx.instructions :
                      /\ tx.instructions[i].programId = TOKEN_PROGRAM_ID
                      /\ "burn" \in tx.instructions[i].innerTypes
        burnTransfer == FirstOf({i \in DOMAIN tt : tt[i].mint = tokenMint /\ Falsy(tt[i].toUserAccount)})
        toBurnAddress == FirstOf({i \in DOMAIN tt :
                                    /\ tt[i].mint = tokenMint
                                    /\ (tt[i].toUserAccount = BURN_ADDRESS \/ tt[i].toTokenAccount = "")})
    IN  IF burnIx /\ burnTransfer # 0 THEN <<safeBigInt(tt[burnTransfer].tokenAmount)>>
        ELSE IF toBurnAddress # 0 THEN <<safeBigInt(tt[toBurnAddress].tokenAmount)>>
        ELSE IF tx.burnEvent # <<>> THEN <<safeBigInt(tx.burnEvent[1])>>
        ELSE <<>>

ClassifiedEvent(type, amount, tx, burnedMint, burnedAmount) ==
    [type |-> type, amountLamports |-> amount, signature |-> tx.signature,
     blockTime |-> tx.timestamp * 1000,
     burnedTokenMint |-> burnedMint, burnedTokenAmount |-> burnedAmount]

\* nativeTransfers.find(t => t.toUserAccount === creatorVault && t.fromUserAccount !== creatorWallet)
\* (CollectTransferLast: the variant that takes the last match instead of the first.)
CollectTransferLast(nt, creatorVault, creatorWallet) ==
    LET hits == {i \in DOMAIN nt : nt[i].toUserAccount = creatorVault
                                   /\ nt[i].fromUserAccount # creatorWallet}
    IN  IF hits = {} THEN 0 ELSE CHOOSE i \in hits : \A j \in hits : i >= j
CollectTransfer(nt, creatorVault, creatorWallet) ==
    FirstOf({i \in DOMAIN nt : nt[i].toUserAccount = creatorVault
                               /\ nt[i].fromUserAccount # creatorWallet})

\* nativeTransfers.find(t => t.fromUserAccount === creatorVault)
\* (VaultOutflowToWalletOnly: the variant that only sees outflows to the creator wallet.)
VaultOutflowToWalletOnly(nt, creatorVault, creatorWallet) ==
    FirstOf({i \in DOMAIN nt : nt[i].fromUserAccount = creatorVault
                               /\ nt[i].toUserAccount = creatorWallet})
VaultOutflow(nt, creatorVault, creatorWallet) ==
    FirstOf({i \in DOMAIN nt : nt[i].fromUserAccount = creatorVault})

\* classifyTransaction: <<>> is null, <<event>> a classified event.
classifyTransaction(tx, creatorVault, creatorWallet, tokenMint) ==
    IF tx.isNull \/ tx.transactionError THEN <<>>
    ELSE
    LET nt == tx.nativeTransfers
        tt == tx.tokenTransfers
        collectTransfer == CollectTransfer(nt, creatorVault, creatorWallet)
        vaultOutflow == VaultOutflow(nt, creatorVault, creatorWallet)
    IN
    IF collectTransfer # 0
    THEN <<ClassifiedEvent("collect", safeBigInt(nt[collectTransfer].amount), tx, <<>>, <<>>)>>
    ELSE IF vaultOutflow = 0 THEN <<>>
    ELSE
    LET outflowAmount == safeBigInt(nt[vaultOutflow].amount)
        hasSwap == hasSwapInstruction(tx)
        burnInfo == findBurnInTransaction(tx, tokenMint)
        tokenBurn == FirstOf({i \in DOMAIN tt :
                                /\ tt[i].mint = tokenMint
                                /\ (\/ tt[i].toUserAccount = BURN_ADDRESS
                                    \/ tt[i].toUserAccount = ""
                                    \/ tt[i].toTokenAccount = "")})
    IN
    IF hasSwap /\ burnInfo # <<>>
    THEN <<ClassifiedEvent("burn", outflowAmount, tx, <<tokenMint>>, burnInfo)>>
    ELSE IF nt[vaultOutflow].toUserAccount = creatorWallet
    THEN <<ClassifiedEvent("withdraw", outflowAmount, tx, <<>>, <<>>)>>
    ELSE IF hasSwap /\ tokenBurn # 0
    THEN <<ClassifiedEvent("burn", outflowAmount, tx, <<tokenMint>>,
                           <<safeBigInt(tt[tokenBurn].tokenAmount)>>)>>
    ELSE <<ClassifiedEvent("withdraw", outflowAmount, tx, <<>>, <<>>)>>

\* Parsed transactions (EnrichedTransaction) as the classifier reads them.
NullTx ==
    [isNull |-> TRUE, transactionError |-> FALSE, signature |-> "", timestamp |-> 0,
     nativeTransfers |-> <<>>, tokenTransfers |-> <<>>, accountData |-> <<>>,
     instructions |-> <<>>, description |-> "", burnEvent |-> <<>>]

EvidenceShapes ==
    { [tokenTransfers |-> <<>>, accountData |-> <<>>, instructions |-> <<>>,
       description |-> "", burnEvent |-> <<>>],
      [tokenTransfers |-> <<>>, accountData |-> <<OtherAddress, JUPITER_V6_PROGRAM_ID>>,
       instructions |-> <<>>, description |-> "", burnEvent |-> <<Num(4)>>],
      [tokenTransfers |-> <<[mint |-> OtherMint, toUserAccount |-> BURN_ADDRESS,
                             toTokenAccount |-> Undefined, tokenAmount |-> Num(2)],
                            [mint |-> TokenMint, toUserAccount |-> BURN_ADDRESS,
                             toTokenAccount |-> Undefined, tokenAmount |-> Num(9)]>>,
       accountData |-> <<>>, instructions |-> <<>>,
       description |-> "Swap 1 SOL for ASDF", burnEvent |-> <<>>],
      [tokenTransfers |-> <<>>, accountData |-> <<>>,
       instructions |-> <<[programId |-> RAYDIUM_AMM_PROGRAM_ID, innerTypes |-> {}]>>,
       description |-> "", burnEvent |-> <<>>],
      [tokenTransfers |-> <<>>, accountData |-> <<>>, instructions |-> <<>>,
       description |-> "transfer", burnEvent |-> <<Digits(6)>>],
      [tokenTransfers |-> <<[mint |-> TokenMint, toUserAccount |-> "",
                             toTokenAccount |-> "tokenAcct", tokenAmount |-> Num(8)]>>,
       accountData |-> <<>>, instructions |-> <<>>,
       description |-> "raydium pool deposit", burnEvent |-> <<>>],
      [tokenTransfers |-> <<[mint |-> TokenMint, toUserAccount |-> Undefined,
                             toTokenAccount |-> "tokenAcct", tokenAmount |-> Num(3)]>>,
       accountData |-> <<>>,
       instructions |-> <<[programId |-> TOKEN_PROGRAM_ID, innerTypes |-> {"burn"}]>>,
       description |-> "JUPITER route", burnEvent |-> <<>>],
      [tokenTransfers |-> <<[mint |-> TokenMint, toUserAccount |-> BURN_ADDRESS,
                             toTokenAccount |-> Undefined, tokenAmount |-> Num(9)],
                            [mint |-> TokenMint, toUserAccount |-> Undefined,
                             toTokenAccount |-> "tokenAcct", tokenAmount |-> Num(3)]>>,
       accountData |-> <<>>,
       instructions |-> <<[programId |-> TOKEN_PROGRAM_ID, innerTypes |-> {"burn"}]>>,
       description |-> "Swap 1 SOL for ASDF", burnEvent |-> <<Num(4)>>] }

\* Native transfers into and out of the vault, and one that does not touch it.
TransferRoutes ==
    { <<OtherAddress, CreatorVault>>, <<CreatorWallet, CreatorVault>>,
      <<CreatorVault, CreatorWallet>>, <<CreatorVault, OtherAddress>>,
      <<OtherAddress, CreatorWallet>> }
NativeTransfers ==
    { [fromUserAccount |-> r[1], toUserAccount |-> r[2], amount |-> a] :
        r \in TransferRoutes, a \in {Num(5), Digits(7)} }
NativeTransferLists == UNION { [1 .. n -> NativeTransfers] : n \in 0 .. MaxTransfers }

MakeTx(signature, timestamp, transactionError, nativeTransfers, evidence) ==
    [isNull |-> FALSE, transactionError |-> transactionError, signature |-> signature,
     timestamp |-> timestamp, nativeTransfers |-> nativeTransfers,
     tokenTransfers |-> evidence.tokenTransfers, accountData |-> evidence.accountData,
     instructions |-> evidence.instructions, description |-> evidence.description,
     burnEvent |-> evidence.burnEvent]

TxInputs ==
    {NullTx} \cup
    { MakeTx("sigA", 17, err, nts, ev) :
        err \in BOOLEAN, nts \in NativeTransferLists, ev \in EvidenceShapes }

\* Upstream amount values of every kind safeBigInt distinguishes: integer
\* numbers of either sign, a number with a fractional part (2.5, floor 2),
\* a digit string, a value that is neither.
AmountValues == {Num(5), Num(0 - 5), Fraction(2), Digits(7), Malformed}

\* Transactions with one native transfer and one piece of burn evidence whose
\* amounts range over AmountValues.
AmountTxInputs ==
    { MakeTx("sigA", 17, FALSE,
             <<[fromUserAccount |-> r[1], toUserAccount |-> r[2], amount |-> a]>>,
             [tokenTransfers |-> IF byTransfer
                                 THEN <<[mint |-> TokenMint, toUserAccount |-> BURN_ADDRESS,
                                         toTokenAccount |-> Undefined, tokenAmount |-> b]>>
                                 ELSE <<>>,
              accountData |-> <<JUPITER_V6_PROGRAM_ID>>, instructions |-> <<>>,
              description |-> "",
              burnEvent |-> IF byTransfer THEN <<>> ELSE <<b>>]) :
        r \in TransferRoutes, a \in AmountValues, b \in AmountValues, byTransfer \in BOOLEAN }

ClsInitAmounts ==
    /\ clsTx \in AmountTxInputs
    /\ clsPhase = "input"
    /\ clsResult = <<>>

ClsIdle ==
    /\ clsTx = NullTx
    /\ clsPhase = "idle"
    /\ clsResult = <<>>

ClsInit ==
    /\ clsTx \in TxInputs
    /\ clsPhase = "input"
    /\ clsResult = <<>>

Classify ==
    /\ clsPhase = "input"
    /\ clsResult' = classifyTransaction(clsTx, CreatorVault, CreatorWallet, TokenMint)
    /\ clsPhase' = "done"
    /\ UNCHANGED clsTx

NextClassify == Classify /\ UNCHANGED <<pohVars, verVars, ledgerVars, handlers, statsVars, pctVars, exportVars, connVars, auxVars>>

(***************************************************************************)
(* Ledger: fee_events, the token aggregate, the batch indexer              *)
(* (src/workers/indexer.ts) and the realtime daemon's event handler.       *)
(***************************************************************************)
TokenId == 1
batchSize == 10
HistoryLimit == 100

NoEvidence == [tokenTransfers |-> <<>>, accountData |-> <<>>, instructions |-> <<>>,
               description |-> "", burnEvent |-> <<>>]
BuybackEvidence == [tokenTransfers |-> <<>>, accountData |-> <<JUPITER_V6_PROGRAM_ID>>,
                    instructions |-> <<>>, description |-> "", burnEvent |-> <<Num(4)>>]

\* The k-th transaction of the creator vault; its signature is k.  In turn: a
\* fee collection, a withdrawal to the creator wallet, a deposit by the creator
\* wallet, a buyback-and-burn.
LedgerTx(k) ==
    LET kind == (k - 1) % 4 IN
    IF kind = 0 THEN
        MakeTx(k, k, FALSE, <<[fromUserAccount |-> OtherAddress, toUserAccount |-> CreatorVault,
                               amount |-> Num(5)]>>, NoEvidence)
    ELSE IF kind = 1 THEN
        MakeTx(k, k, FALSE, <<[fromUserAccount |-> CreatorVault, toUserAccount |-> CreatorWallet,
                               amount |-> Num(3)]>>, NoEvidence)
    ELSE IF kind = 2 THEN
        MakeTx(k, k, FALSE, <<[fromUserAccount |-> CreatorWallet, toUserAccount |-> CreatorVault,
                               amount |-> Num(7)]>>, NoEvidence)
    ELSE
        MakeTx(k, k, FALSE, <<[fromUserAccount |-> CreatorVault, toUserAccount |-> OtherAddress,
                               amount |-> Num(2)]>>, BuybackEvidence)

\* getTransactionHistory(creatorVault, { limit }): signatures, newest first.
RECURSIVE NewestFirst(_, _)
NewestFirst(n, count) ==
    IF n = 0 \/ count = 0 THEN <<>> ELSE <<n>> \o NewestFirst(n - 1, count - 1)
getTransactionHistory(n, limit) == NewestFirst(n, limit)

\* fee_events_signature_key: UNIQUE (signature).
SignatureTaken(rows, signature) == \E i \in DOMAIN rows : rows[i].signature = signature

\* createFeeEvent: prisma.feeEvent.create under the unique index.
\* (CreateFeeEventUnchecked: the variant without the unique index.)
CreateFeeEventUnchecked(rows, data, dbOk) ==
    IF ~dbOk THEN [rows |-> rows, outcome |-> "failed"]
    ELSE [rows |-> Append(rows, data), outcome |-> "created"]
createFeeEvent(rows, data, dbOk) ==
    IF ~dbOk THEN [rows |-> rows, outcome |-> "failed"]
    ELSE IF SignatureTaken(rows, data.signature) THEN [rows |-> rows, outcome |-> "duplicate"]
    ELSE [rows |-> Append(rows, data), outcome |-> "created"]

FeeEventRow(eventType, amountLamports, signature) ==
    [tokenId |-> TokenId, eventType |-> eventType, amountLamports |-> amountLamports,
     signature |-> signature]

calculateBurnPercentage(totalCollected, totalBurned) ==
    IF totalCollected = 0 THEN 0 ELSE (totalBurned * 10000) \div totalCollected

\* The argument is the percentage in hundredths of a percent.
calculateBadgeTier(burnPercentage) ==
    IF burnPercentage >= 9500 THEN "fire"
    ELSE IF burnPercentage >= 8000 THEN "coffee"
    ELSE IF burnPercentage >= 5000 THEN "good"
    ELSE IF burnPercentage >= 2000 THEN "nervous"
    ELSE IF burnPercentage >= 100 THEN "exiting"
    ELSE "arsonist"

\* groupBy eventType, _sum amountLamports, where tokenId.
RECURSIVE SumOf(_, _)
SumOf(rows, eventType) ==
    IF rows = <<>> THEN 0
    ELSE (IF Head(rows).tokenId = TokenId /\ Head(rows).eventType = eventType
          THEN Head(rows).amountLamports ELSE 0) + SumOf(Tail(rows), eventType)

\* recalculateTokenStats: the values handed to updateTokenStats.
recalculateTokenStats(rows) ==
    LET totalCollected == SumOf(rows, "collect")
        totalBurned == SumOf(rows, "burn")
        totalWithdrawn == SumOf(rows, "withdraw")
        totalHeld == totalCollected - totalBurned - totalWithdrawn
        burnPercentage == calculateBurnPercentage(totalCollected, totalBurned)
    IN  [totalFeesCollected |-> totalCollected, totalFeesBurned |-> totalBurned,
         totalFeesWithdrawn |-> totalWithdrawn,
         totalFeesHeld |-> IF totalHeld < 0 THEN 0 ELSE totalHeld,
         burnPercentage |-> burnPercentage, badgeTier |-> calculateBadgeTier(burnPercentage)]

\* The aggregate columns of a freshly created token row.
NewTokenStats ==
    [totalFeesCollected |-> 0, totalFeesBurned |-> 0, totalFeesWithdrawn |-> 0,
     totalFeesHeld |-> 0, burnPercentage |-> 0, badgeTier |-> "arsonist"]

NoWrite == [by |-> "none", signature |-> 0, outcome |-> "none"]

\* The store and the orchestrators at start, the creator vault having n
\* transactions on chain already.
LedgerInitAt(n) ==
    /\ history = n
    /\ arrivals = 0
    /\ feeEvents = <<>>
    /\ tokenStats = NewTokenStats
    /\ lastWrite = NoWrite
    /\ bPc = "idle"
    /\ bNew = <<>>
    /\ bIndex = 0
    /\ bParsed = <<>>
    /\ bAllEvents = 0
    /\ bError = FALSE
    /\ bFailure = "none"
    /\ runs = 0
    /\ fetchFailures = 0
    /\ writeFailures = 0
    /\ daemonStarted = FALSE
    /\ trkLastSequence = 0
    /\ trkLastHash = GENESIS_HASH
    /\ recentSignatures = {}
    /\ rtLast = 0
    /\ rtCount = 0

LedgerInit == LedgerInitAt(0)

\* Transactions of the creator vault land on chain, one or a group's worth.
ArrivalSizes == {1, batchSize}

ChainTx(count) ==
    /\ bPc = "idle"
    /\ arrivals < MaxArrivals
    /\ history + count <= MaxHistory
    /\ history' = history + count
    /\ arrivals' = arrivals + 1
    /\ UNCHANGED <<feeEvents, tokenStats, lastWrite, batchVars, daemonVars, pohVars>>

\* indexToken up to the loop: the history fetch, the filter against the
\* persisted signatures, and the two early returns.
BatchStart(historyOk) ==
    /\ bPc = "idle"
    /\ runs < MaxRuns
    /\ historyOk \/ fetchFailures < MaxFetchFailures
    /\ runs' = runs + 1
    /\ bAllEvents' = 0
    /\ bIndex' = 0
    /\ bParsed' = <<>>
    /\ IF ~historyOk
       THEN /\ fetchFailures' = fetchFailures + 1
            /\ bPc' = "returned" /\ bError' = TRUE /\ bFailure' = "history"
            /\ bNew' = <<>>
       ELSE LET signatures == getTransactionHistory(history, HistoryLimit)
                IsNew(sig) == ~\E i \in DOMAIN feeEvents :
                                   feeEvents[i].tokenId = TokenId /\ feeEvents[i].signature = sig
                newSignatures == SelectSeq(signatures, IsNew)
            IN  /\ fetchFailures' = fetchFailures
                /\ bError' = FALSE /\ bFailure' = "none"
                /\ bNew' = newSignatures
                /\ bPc' = IF Len(signatures) = 0 \/ Len(newSignatures) = 0
                          THEN "returned" ELSE "group"
    /\ UNCHANGED <<writeFailures, storeVars, daemonVars, pohVars>>

Min(a, b) == IF a < b THEN a ELSE b

\* getParsedTransactions(newSignatures.slice(i, i + batchSize)); a throw ends
\* the run in the catch of indexToken.
FetchGroup(ok) ==
    /\ bPc = "group"
    /\ ok \/ fetchFailures < MaxFetchFailures
    /\ IF ok
       THEN /\ bParsed' = SubSeq(bNew, bIndex + 1, Min(bIndex + batchSize, Len(bNew)))
            /\ bPc' = "event"
            /\ UNCHANGED <<bError, bFailure, fetchFailures>>
       ELSE /\ fetchFailures' = fetchFailures + 1
            /\ bPc' = "returned" /\ bError' = TRUE /\ bFailure' = "fetch"
            /\ UNCHANGED bParsed
    /\ UNCHANGED <<bNew, bIndex, bAllEvents, runs, writeFailures, storeVars, daemonVars, pohVars>>

\* One pass of the inner loop: classify, save, swallow a failing save.
ProcessTx(dbOk) ==
    /\ bPc = "event"
    /\ bParsed # <<>>
    /\ dbOk \/ writeFailures < MaxWriteFailures
    /\ LET tx == LedgerTx(Head(bParsed))
           event == classifyTransaction(tx, CreatorVault, CreatorWallet, TokenMint)
           write == IF event = <<>> THEN [rows |-> feeEvents, outcome |-> "none"]
                    ELSE createFeeEvent(feeEvents,
                             FeeEventRow(event[1].type, event[1].amountLamports,
                                         event[1].signature), dbOk)
           groupDone == Len(bParsed) = 1
       IN  /\ dbOk \/ event # <<>>
           /\ feeEvents' = write.rows
           /\ lastWrite' = IF event = <<>> THEN lastWrite
                           ELSE [by |-> "batch", signature |-> event[1].signature,
                                 outcome |-> write.outcome]
           /\ bAllEvents' = IF event = <<>> THEN bAllEvents ELSE bAllEvents + 1
           /\ writeFailures' = IF write.outcome = "failed" THEN writeFailures + 1
                               ELSE writeFailures
           /\ bFailure' = IF write.outcome = "failed" THEN "write" ELSE bFailure
           /\ bParsed' = Tail(bParsed)
           /\ bIndex' = IF groupDone THEN bIndex + batchSize ELSE bIndex
           /\ bPc' = IF ~groupDone THEN "event"
                     ELSE IF bIndex + batchSize < Len(bNew) THEN "group" ELSE "recalc"
    /\ UNCHANGED <<bNew, bError, runs, fetchFailures, history, arrivals, tokenStats, daemonVars, pohVars>>

\* recalculateTokenStats(tokenId, mint), then return { newEvents }.
BatchRecalc ==
    /\ bPc = "recalc"
    /\ tokenStats' = recalculateTokenStats(feeEvents)
    /\ bPc' = "returned"
    /\ UNCHANGED <<history, arrivals, feeEvents, lastWrite, bNew, bIndex, bParsed, bAllEvents, bError,
                   bFailure, runs, fetchFailures, writeFailures, daemonVars, pohVars>>

\* The caller has the result; the next run may start.
BatchFinish ==
    /\ bPc = "returned"
    /\ bPc' = "idle"
    /\ bNew' = <<>>
    /\ bError' = FALSE
    /\ bFailure' = "none"
    /\ UNCHANGED <<bIndex, bParsed, bAllEvents, runs, fetchFailures, writeFailures,
                   storeVars, daemonVars, pohVars>>

(***************************************************************************)
(* Realtime path: WebSocketTracker.handleAccountChange followed by         *)
(* RealtimeDaemon.handleFeeDetected, for one balance-change notification.  *)
(***************************************************************************)
BURN_ENGINE_PROGRAM_ID == "ASDFc5hkEM2MF8mrAAtCPieV6x6h1B5BwjgztFt7Xbui"

\* The lamports the transaction adds to the vault's balance.
RECURSIVE NetChange(_)
NetChange(transfers) ==
    IF transfers = <<>> THEN 0
    ELSE (IF Head(transfers).toUserAccount = CreatorVault THEN Head(transfers).amount.val ELSE 0)
         - (IF Head(transfers).fromUserAccount = CreatorVault THEN Head(transfers).amount.val ELSE 0)
         + NetChange(Tail(transfers))

classifyBalanceChange(change) == IF change > 0 THEN "collect" ELSE "withdraw"

\* verifyBurnTransaction(signature).burnType, read off the same transaction.
BurnType(tx) ==
    LET involvesBurnEngine == \E i \in DOMAIN tx.accountData :
                                  tx.accountData[i] = BURN_ENGINE_PROGRAM_ID
        burnInstruction == \E i \in DOMAIN tx.instructions : "burn" \in tx.instructions[i].innerTypes
        burnTransfer == \E i \in DOMAIN tx.tokenTransfers :
                            tx.tokenTransfers[i].toUserAccount = BURN_ADDRESS
        hasJupiterSwap == \E i \in DOMAIN tx.accountData :
                              tx.accountData[i] = JUPITER_V6_PROGRAM_ID
    IN  IF hasJupiterSwap /\ (burnInstruction \/ burnTransfer) THEN "buyback"
        ELSE IF involvesBurnEngine THEN "engine"
        ELSE IF burnInstruction \/ burnTransfer THEN "direct"
        ELSE "unknown"

\* handleFeeDetected, lines 280-312: the event type that is stored.
VerifiedEventType(eventType, signature, tx, parseOk) ==
    IF signature = <<>> THEN eventType
    ELSE LET afterBurnEngine ==
                 IF eventType \in {"burn", "withdraw"} /\ BurnType(tx) # "unknown"
                 THEN "burn" ELSE eventType
             classified == classifyTransaction(tx, CreatorVault, CreatorWallet, TokenMint)
         IN  IF parseOk /\ classified # <<>> THEN classified[1].type ELSE afterBurnEngine

\* event.signature || `ws-${Date.now()}`
WsSignature(signature, now) == IF signature = <<>> THEN 0 - now ELSE signature[1]

\* initializeTokenTracker and WebSocketTracker.start: the daemon's manager and
\* the tracker's manager each load the tail of the token's chain.
DaemonStart ==
    /\ bPc # "returned"
    /\ ~daemonStarted
    /\ daemonStarted' = TRUE
    /\ LET last == LastRecordOf(pohRecords) IN
        /\ lastSequence' = IF last = <<>> THEN 0 ELSE last[1].sequence
        /\ lastHash' = IF last = <<>> THEN GENESIS_HASH ELSE last[1].hash
        /\ trkLastSequence' = lastSequence'
        /\ trkLastHash' = lastHash'
    /\ pohInitialized' = TRUE
    /\ recentSignatures' = {}
    /\ UNCHANGED <<pohRecords, addOutcome, persistFailures, rtLast, rtCount, storeVars, batchVars>>

\* The notification of the newest vault transaction, handled without another
\* notification in between: the tracker's PoH append, then the daemon's
\* fee-event write, PoH append and recalculation.
RealtimeEvent(signatureOk, parseOk, now) ==
    /\ bPc # "returned"
    /\ daemonStarted
    /\ rtCount < MaxRealtime
    /\ rtLast < history
    /\ LET tx == LedgerTx(history)
           change == NetChange(tx.nativeTransfers)
           eventType == classifyBalanceChange(change)
           amountLamports == IF change > 0 THEN change ELSE 0 - change
           signature == IF signatureOk THEN <<tx.signature>> ELSE <<>>
           skipped == signature # <<>> /\ signature[1] \in recentSignatures
           pohEvent == [eventType |-> eventType, vault |-> "BC",
                        amountLamports |-> amountLamports,
                        signature |-> WsSignature(signature, now), slot |-> <<history>>]
           \* the tracker's pohManager.addEvent
           trkRecord == BuildRecord(trkLastSequence, trkLastHash, TokenMint, pohEvent, now)
           trkAdds == signature # <<>>
           trkPersisted == trkAdds /\ ~PoHUniqueViolation(pohRecords, trkRecord)
           rows1 == IF trkPersisted THEN Append(pohRecords, trkRecord) ELSE pohRecords
           \* the daemon's handleFeeDetected
           verifiedEventType == VerifiedEventType(eventType, signature, tx, parseOk)
           write == createFeeEvent(feeEvents,
                        FeeEventRow(verifiedEventType, amountLamports,
                                    WsSignature(signature, now)), TRUE)
           created == write.outcome = "created"
           dmnAdds == created /\ signature # <<>>
           dmnRecord == BuildRecord(lastSequence, lastHash, TokenMint,
                                    [pohEvent EXCEPT !.eventType = verifiedEventType], now)
           dmnPersisted == dmnAdds /\ ~PoHUniqueViolation(rows1, dmnRecord)
           rows2 == IF dmnPersisted THEN Append(rows1, dmnRecord) ELSE rows1
           recalculated == created /\ (dmnAdds => dmnPersisted)
       IN  /\ change # 0
           /\ rtLast' = history
           /\ rtCount' = rtCount + 1
           /\ IF skipped
              THEN UNCHANGED <<recentSignatures, trkLastSequence, trkLastHash, pohVars,
                               feeEvents, lastWrite, tokenStats>>
              ELSE /\ recentSignatures' = IF signature = <<>> THEN recentSignatures
                                          ELSE recentSignatures \cup {signature[1]}
                   /\ trkLastSequence' = TailAfterCreate(trkPersisted, trkLastSequence,
                                                         trkRecord.sequence)
                   /\ trkLastHash' = TailAfterCreate(trkPersisted, trkLastHash, trkRecord.hash)
                   /\ pohRecords' = rows2
                   /\ lastSequence' = TailAfterCreate(dmnPersisted, lastSequence,
                                                      dmnRecord.sequence)
                   /\ lastHash' = TailAfterCreate(dmnPersisted, lastHash, dmnRecord.hash)
                   /\ addOutcome' = IF ~dmnAdds THEN addOutcome
                                    ELSE IF dmnPersisted THEN "returned" ELSE "threw"
                   /\ feeEvents' = write.rows
                   /\ lastWrite' = [by |-> "daemon", signature |-> WsSignature(signature, now),
                                    outcome |-> write.outcome]
                   /\ tokenStats' = IF recalculated THEN recalculateTokenStats(write.rows)
                                    ELSE tokenStats
                   /\ UNCHANGED <<pohInitialized, persistFailures>>
    /\ UNCHANGED <<history, arrivals, daemonStarted, batchVars>>

\* new Date() / Date.now() at the n-th notification.
ClockAt(n) == 1000 + n

NextLedger ==
    \/ (\E count \in ArrivalSizes : ChainTx(count)) /\ UNCHANGED <<verVars, clsVars, handlers, statsVars, pctVars, exportVars, connVars, auxVars>>
    \/ (\E historyOk \in BOOLEAN : BatchStart(historyOk)) /\ UNCHANGED <<verVars, clsVars, handlers, statsVars, pctVars, exportVars, connVars, auxVars>>
    \/ (\E ok \in BOOLEAN : FetchGroup(ok)) /\ UNCHANGED <<verVars, clsVars, handlers, statsVars, pctVars, exportVars, connVars, auxVars>>
    \/ (\E dbOk \in BOOLEAN : ProcessTx(dbOk)) /\ UNCHANGED <<verVars, clsVars, handlers, statsVars, pctVars, exportVars, connVars, auxVars>>
    \/ BatchRecalc /\ UNCHANGED <<verVars, clsVars, handlers, statsVars, pctVars, exportVars, connVars, auxVars>>
    \/ BatchFinish /\ UNCHANGED <<verVars, clsVars, handlers, statsVars, pctVars, exportVars, connVars, auxVars>>
    \/ DaemonStart /\ UNCHANGED <<verVars, clsVars, handlers, statsVars, pctVars, exportVars, connVars, auxVars>>
    \/ (\E signatureOk \in BOOLEAN, parseOk \in BOOLEAN :
            RealtimeEvent(signatureOk, parseOk, ClockAt(rtCount))) /\ UNCHANGED <<verVars, clsVars, handlers, statsVars, pctVars, exportVars, connVars, auxVars>>

(***************************************************************************)
(* Realtime path, handler by handler: every notification starts its own    *)
(* run of handleAccountChange, which is not awaited by the subscription    *)
(* callback, and handleAccountChange does not await onFeeDetected.         *)
(***************************************************************************)
Notifications == 1 .. MaxNotifications

IdleHandler ==
    [pc |-> "wait", eventType |-> "none", amountLamports |-> 0, signature |-> <<>>,
     record |-> <<>>, pohSequence |-> 0, feeRow |-> 0]

HandlersInit == handlers = [k \in Notifications |-> IdleHandler]

\* The k-th vault transaction lands on chain.
Land ==
    /\ history < MaxNotifications
    /\ history' = history + 1
    /\ UNCHANGED <<arrivals, feeEvents, tokenStats, lastWrite, batchVars, daemonVars, pohVars,
                   handlers>>

\* The notification of the k-th transaction is delivered: handleAccountChange
\* up to its first await.
Deliver(k) ==
    /\ daemonStarted
    /\ k <= history
    /\ handlers[k].pc = "wait"
    /\ \A j \in Notifications : j < k => handlers[j].pc # "wait"
    /\ LET change == NetChange(LedgerTx(k).nativeTransfers) IN
        /\ change # 0
        /\ handlers' = [handlers EXCEPT ![k] =
                          [@ EXCEPT !.pc = "fetch",
                                    !.eventType = classifyBalanceChange(change),
                                    !.amountLamports = IF change > 0 THEN change ELSE 0 - change]]
    /\ UNCHANGED <<ledgerVars, pohVars>>

\* getSignaturesForAddress(vault, { limit: 1 }) is answered: the newest
\* signature at that moment, or an error.
FetchServe(k, ok) ==
    /\ handlers[k].pc = "fetch"
    /\ handlers' = [handlers EXCEPT ![k] =
                      [@ EXCEPT !.pc = "fetched",
                                !.signature = IF ok THEN <<LedgerTx(history).signature>> ELSE <<>>]]
    /\ UNCHANGED <<ledgerVars, pohVars>>

\* The k-th handler resumes after fetchRecentSignature: deduplication, then
\* the synchronous part of the tracker's pohManager.addEvent, or, without a
\* signature, the call of onFeeDetected.
FetchReturn(k) ==
    /\ handlers[k].pc = "fetched"
    /\ LET h == handlers[k]
           pohEvent == [eventType |-> h.eventType, vault |-> "BC",
                        amountLamports |-> h.amountLamports,
                        signature |-> WsSignature(h.signature, ClockAt(k)), slot |-> <<k>>]
       IN  IF h.signature # <<>> /\ h.signature[1] \in recentSignatures
           THEN /\ handlers' = [handlers EXCEPT ![k].pc = "done"]
                /\ UNCHANGED recentSignatures
           ELSE IF h.signature # <<>>
           THEN /\ recentSignatures' = recentSignatures \cup {h.signature[1]}
                /\ handlers' = [handlers EXCEPT ![k] =
                      [@ EXCEPT !.pc = "trkCreate",
                                !.record = <<BuildRecord(trkLastSequence, trkLastHash,
                                                         TokenMint, pohEvent, ClockAt(k))>>]]
           ELSE /\ handlers' = [handlers EXCEPT ![k].pc = "dmnWrite"]
                /\ UNCHANGED recentSignatures
    /\ UNCHANGED <<storeVars, batchVars, daemonStarted, trkLastSequence, trkLastHash, rtLast,
                   rtCount, pohVars>>

\* prisma.poHRecord.create of the tracker's addEvent resolves; the tail moves;
\* a throw is caught and logged; onFeeDetected is called.
TrkCreate(k) ==
    /\ handlers[k].pc = "trkCreate"
    /\ LET record == handlers[k].record[1]
           persisted == ~PoHUniqueViolation(pohRecords, record)
       IN  /\ pohRecords' = IF persisted THEN Append(pohRecords, record) ELSE pohRecords
           /\ trkLastSequence' = TailAfterCreate(persisted, trkLastSequence, record.sequence)
           /\ trkLastHash' = TailAfterCreate(persisted, trkLastHash, record.hash)
           /\ handlers' = [handlers EXCEPT ![k] =
                  [@ EXCEPT !.pc = "dmnWrite", !.record = <<>>,
                            !.pohSequence = IF persisted THEN record.sequence ELSE 0]]
    /\ UNCHANGED <<storeVars, batchVars, daemonStarted, recentSignatures, rtLast, rtCount,
                   lastSequence, lastHash, pohInitialized, addOutcome, persistFailures>>

\* handleFeeDetected up to the resolution of createFeeEvent, and, when the row
\* was created, the synchronous part of the daemon's pohManager.addEvent.
DmnWrite(k, parseOk) ==
    /\ handlers[k].pc = "dmnWrite"
    /\ LET h == handlers[k]
           \* getParsedTransactions([event.signature])
           parsedTx == LedgerTx(IF h.signature = <<>> THEN k ELSE h.signature[1])
           verifiedEventType == VerifiedEventType(h.eventType, h.signature, parsedTx, parseOk)
           signature == WsSignature(h.signature, ClockAt(k))
           write == createFeeEvent(feeEvents,
                        FeeEventRow(verifiedEventType, h.amountLamports, signature), TRUE)
           created == write.outcome = "created"
           pohEvent == [eventType |-> verifiedEventType, vault |-> "BC",
                        amountLamports |-> h.amountLamports, signature |-> signature,
                        slot |-> <<k>>]
       IN  /\ feeEvents' = write.rows
           /\ lastWrite' = [by |-> "daemon", signature |-> signature, outcome |-> write.outcome]
           /\ handlers' = [handlers EXCEPT ![k] =
                  [@ EXCEPT !.pc = IF ~created THEN "done"
                                   ELSE IF h.signature # <<>> THEN "dmnCreate" ELSE "dmnRecalc",
                            !.eventType = verifiedEventType,
                            !.feeRow = IF created THEN Len(write.rows) ELSE 0,
                            !.record = IF created /\ h.signature # <<>>
                                       THEN <<BuildRecord(lastSequence, lastHash, TokenMint,
                                                          pohEvent, ClockAt(k))>>
                                       ELSE <<>>]]
    /\ UNCHANGED <<history, arrivals, tokenStats, batchVars, daemonVars, pohVars>>

\* prisma.poHRecord.create of the daemon's addEvent resolves; a throw skips the
\* recalculation (the catch of handleFeeDetected).
DmnCreate(k) ==
    /\ handlers[k].pc = "dmnCreate"
    /\ LET record == handlers[k].record[1]
           persisted == ~PoHUniqueViolation(pohRecords, record)
       IN  /\ pohRecords' = IF persisted THEN Append(pohRecords, record) ELSE pohRecords
           /\ lastSequence' = TailAfterCreate(persisted, lastSequence, record.sequence)
           /\ lastHash' = TailAfterCreate(persisted, lastHash, record.hash)
           /\ addOutcome' = IF persisted THEN "returned" ELSE "threw"
           /\ handlers' = [handlers EXCEPT ![k] =
                  [@ EXCEPT !.pc = IF persisted THEN "dmnRecalc" ELSE "done", !.record = <<>>]]
    /\ UNCHANGED <<ledgerVars, pohInitialized, persistFailures>>

\* The daemon's recalculateTokenStats.
DmnRecalc(k) ==
    /\ handlers[k].pc = "dmnRecalc"
    /\ tokenStats' = recalculateTokenStats(feeEvents)
    /\ handlers' = [handlers EXCEPT ![k].pc = "done"]
    /\ UNCHANGED <<history, arrivals, feeEvents, lastWrite, batchVars, daemonVars, pohVars>>

NextRealtime ==
    \/ DaemonStart /\ UNCHANGED <<verVars, clsVars, handlers, statsVars, pctVars, exportVars, connVars, auxVars>>
    \/ Land /\ UNCHANGED <<verVars, clsVars, statsVars, pctVars, exportVars, connVars, auxVars>>
    \/ (\E k \in Notifications : Deliver(k)) /\ UNCHANGED <<verVars, clsVars, statsVars, pctVars, exportVars, connVars, auxVars>>
    \/ (\E k \in Notifications, ok \in BOOLEAN : FetchServe(k, ok)) /\ UNCHANGED <<verVars, clsVars, statsVars, pctVars, exportVars, connVars, auxVars>>
    \/ (\E k \in Notifications : FetchReturn(k)) /\ UNCHANGED <<verVars, clsVars, statsVars, pctVars, exportVars, connVars, auxVars>>
    \/ (\E k \in Notifications : TrkCreate(k)) /\ UNCHANGED <<verVars, clsVars, statsVars, pctVars, exportVars, connVars, auxVars>>
    \/ (\E k \in Notifications, parseOk \in BOOLEAN : DmnWrite(k, parseOk))
        /\ UNCHANGED <<verVars, clsVars, statsVars, pctVars, exportVars, connVars, auxVars>>
    \/ (\E k \in Notifications : DmnCreate(k)) /\ UNCHANGED <<verVars, clsVars, statsVars, pctVars, exportVars, connVars, auxVars>>
    \/ (\E k \in Notifications : DmnRecalc(k)) /\ UNCHANGED <<verVars, clsVars, statsVars, pctVars, exportVars, connVars, auxVars>>

(***************************************************************************)
(* calculateEventStats (src/lib/classifier.ts) beside the ledger.          *)
(***************************************************************************)
NoStats ==
    [totalCollected |-> 0, totalBurned |-> 0, totalWithdrawn |-> 0,
     collectCount |-> 0, burnCount |-> 0, withdrawCount |-> 0]

\* calculateEventStats: the for loop over the events.
\* (CalculateEventStatsBurnAsWithdraw: the variant whose burn case adds to the
\* withdraw totals.)
RECURSIVE CalculateEventStatsBurnAsWithdraw(_)
CalculateEventStatsBurnAsWithdraw(events) ==
    IF events = <<>> THEN NoStats
    ELSE LET rest == CalculateEventStatsBurnAsWithdraw(SubSeq(events, 1, Len(events) - 1))
             event == events[Len(events)]
         IN  IF event.type = "collect"
             THEN [rest EXCEPT !.totalCollected = @ + event.amountLamports,
                               !.collectCount = @ + 1]
             ELSE [rest EXCEPT !.totalWithdrawn = @ + event.amountLamports,
                               !.withdrawCount = @ + 1]
RECURSIVE calculateEventStats(_)
calculateEventStats(events) ==
    IF events = <<>> THEN NoStats
    ELSE LET rest == calculateEventStats(SubSeq(events, 1, Len(events) - 1))
             event == events[Len(events)]
         IN  IF event.type = "collect"
             THEN [rest EXCEPT !.totalCollected = @ + event.amountLamports,
                               !.collectCount = @ + 1]
             ELSE IF event.type = "burn"
             THEN [rest EXCEPT !.totalBurned = @ + event.amountLamports,
                               !.burnCount = @ + 1]
             ELSE IF event.type = "withdraw"
             THEN [rest EXCEPT !.totalWithdrawn = @ + event.amountLamports,
                               !.withdrawCount = @ + 1]
             ELSE rest

\* Appending a list of classified events to a ledger, one createFeeEvent each,
\* as the ingestion loops do.
RECURSIVE AppendAll(_, _)
AppendAll(rows, events) ==
    IF events = <<>> THEN rows
    ELSE AppendAll(createFeeEvent(rows,
                       FeeEventRow(Head(events).type, Head(events).amountLamports,
                                   Head(events).signature), TRUE).rows,
                   Tail(events))

\* Classified events: three types, two amounts, two signatures.
StatsEvents ==
    { [type |-> t, amountLamports |-> a, signature |-> sig] :
        t \in {"collect", "burn", "withdraw"}, a \in {1, 2}, sig \in {1, 2} }
StatsLists == UNION { [1 .. n -> StatsEvents] : n \in 0 .. MaxEvents }

StatsIdle ==
    /\ statsEvents = <<>>
    /\ statsPhase = "idle"
    /\ statsResult = NoStats
    /\ statsLedger = NewTokenStats

StatsInit ==
    /\ statsEvents \in StatsLists
    /\ statsPhase = "input"
    /\ statsResult = NoStats
    /\ statsLedger = NewTokenStats

ComputeStats ==
    /\ statsPhase = "input"
    /\ statsResult' = calculateEventStats(statsEvents)
    /\ statsLedger' = recalculateTokenStats(AppendAll(<<>>, statsEvents))
    /\ statsPhase' = "done"
    /\ UNCHANGED statsEvents

NextStats ==
    ComputeStats /\ UNCHANGED <<pohVars, verVars, clsVars, ledgerVars, handlers, pctVars, exportVars, connVars, auxVars>>

(***************************************************************************)
(* calculateBurnPercentage (src/lib/badges.ts) on its own.                 *)
(***************************************************************************)
PctIdle ==
    /\ pctCollected = 0
    /\ pctBurned = 0
    /\ pctPhase = "idle"
    /\ pctResult = 0

PctInit ==
    /\ pctCollected \in 0 .. MaxAmount
    /\ pctBurned \in 0 .. MaxAmount
    /\ pctPhase = "input"
    /\ pctResult = 0

ComputePercentage ==
    /\ pctPhase = "input"
    /\ pctResult' = calculateBurnPercentage(pctCollected, pctBurned)
    /\ pctPhase' = "done"
    /\ UNCHANGED <<pctCollected, pctBurned>>

NextPct ==
    ComputePercentage
        /\ UNCHANGED <<pohVars, verVars, clsVars, ledgerVars, handlers, statsVars, exportVars, connVars, auxVars>>

(***************************************************************************)
(* exportChainToJSON / importChainFromJSON (src/lib/proof-of-history.ts).  *)
(***************************************************************************)
\* BigInt.prototype.toString(): the base-10 digits, most significant first,
\* behind a "-" for a negative value.
DigitChars == <<"0", "1", "2", "3", "4", "5", "6", "7", "8", "9">>
RECURSIVE Digits10(_)
Digits10(n) ==
    IF n < 10 THEN <<DigitChars[n + 1]>>
    ELSE Append(Digits10(n \div 10), DigitChars[(n % 10) + 1])
BigIntToString(n) == IF n < 0 THEN <<"-">> \o Digits10(0 - n) ELSE Digits10(n)

\* BigInt(text) on such a text.
RECURSIVE DigitsValue(_)
DigitsValue(ds) ==
    IF ds = <<>> THEN 0
    ELSE 10 * DigitsValue(SubSeq(ds, 1, Len(ds) - 1))
            + (CHOOSE d \in 0 .. 9 : DigitChars[d + 1] = ds[Len(ds)])
BigIntOf(text) ==
    IF text # <<>> /\ Head(text) = "-" THEN 0 - DigitsValue(Tail(text))
    ELSE DigitsValue(text)

MsPerDay == 86400000

\* The proleptic Gregorian date of a day counted from 1970-01-01.
CivilFromDays(days) ==
    LET z == days + 719468
        era == z \div 146097
        doe == z - era * 146097
        yoe == (doe - doe \div 1460 + doe \div 36524 - doe \div 146096) \div 365
        doy == doe - (365 * yoe + yoe \div 4 - yoe \div 100)
        mp == (5 * doy + 2) \div 153
        d == doy - (153 * mp + 2) \div 5 + 1
        m == IF mp < 10 THEN mp + 3 ELSE mp - 9
        y == yoe + era * 400 + (IF m <= 2 THEN 1 ELSE 0)
    IN  <<y, m, d>>

DaysFromCivil(y, m, d) ==
    LET yy == IF m <= 2 THEN y - 1 ELSE y
        era == yy \div 400
        yoe == yy - era * 400
        doy == (153 * (IF m > 2 THEN m - 3 ELSE m + 9) + 2) \div 5 + d - 1
        doe == yoe * 365 + yoe \div 4 - yoe \div 100 + doy
    IN  era * 146097 + doe - 719468

\* Date.prototype.toISOString(): YYYY-MM-DDTHH:mm:ss.sssZ, as its fields.
\* (ToISOStringSeconds: the variant that drops the milliseconds.)
ToISOStringSeconds(ms) ==
    LET date == CivilFromDays(ms \div MsPerDay)
        inDay == ms % MsPerDay
    IN  [year |-> date[1], month |-> date[2], day |-> date[3],
         hours |-> inDay \div 3600000, minutes |-> (inDay \div 60000) % 60,
         seconds |-> (inDay \div 1000) % 60, millis |-> 0]
toISOString(ms) ==
    LET date == CivilFromDays(ms \div MsPerDay)
        inDay == ms % MsPerDay
    IN  [year |-> date[1], month |-> date[2], day |-> date[3],
         hours |-> inDay \div 3600000, minutes |-> (inDay \div 60000) % 60,
         seconds |-> (inDay \div 1000) % 60, millis |-> inDay % 1000]

\* new Date(text) on an ISO text.
DateOf(iso) ==
    DaysFromCivil(iso.year, iso.month, iso.day) * MsPerDay
        + iso.hours * 3600000 + iso.minutes * 60000 + iso.seconds * 1000 + iso.millis

\* JSON.stringify drops a property whose value is undefined.
OptionalKeys(r) ==
    (IF r.slot = <<>> THEN {} ELSE {"slot"})
        \cup (IF r.tokenSymbol = Undefined THEN {} ELSE {"tokenSymbol"})
RequiredKeys ==
    {"sequence", "hash", "prevHash", "timestamp", "eventType", "vault",
     "tokenMint", "amountLamports", "signature"}

\* One element of the exported array: { ...r, amountLamports, timestamp }.
ExportRecord(r) ==
    [key \in RequiredKeys \cup OptionalKeys(r) |->
        CASE key = "sequence" -> r.sequence
          [] key = "hash" -> r.hash
          [] key = "prevHash" -> r.prevHash
          [] key = "timestamp" -> toISOString(r.timestamp)
          [] key = "slot" -> r.slot[1]
          [] key = "eventType" -> r.eventType
          [] key = "vault" -> r.vault
          [] key = "tokenMint" -> r.tokenMint
          [] key = "tokenSymbol" -> r.tokenSymbol
          [] key = "amountLamports" -> BigIntToString(r.amountLamports)
          [] OTHER -> r.signature]

exportChainToJSON(records) == [i \in DOMAIN records |-> ExportRecord(records[i])]

\* One element of data.map(...): a missing property reads as undefined.
ImportRecord(r) ==
    [sequence |-> r["sequence"], hash |-> r["hash"], prevHash |-> r["prevHash"],
     timestamp |-> DateOf(r["timestamp"]),
     slot |-> IF "slot" \in DOMAIN r THEN <<r["slot"]>> ELSE <<>>,
     eventType |-> r["eventType"], vault |-> r["vault"], tokenMint |-> r["tokenMint"],
     tokenSymbol |-> IF "tokenSymbol" \in DOMAIN r THEN r["tokenSymbol"] ELSE Undefined,
     amountLamports |-> BigIntOf(r["amountLamports"]), signature |-> r["signature"]]

importChainFromJSON(json) == [i \in DOMAIN json |-> ImportRecord(json[i])]

\* Events of exported chains: those of PoHEvents and one of 1.5 SOL.
ExportEvents ==
    PoHEvents \cup
        { [eventType |-> "burn", vault |-> "AMM", amountLamports |-> 1500000000,
           signature |-> "sigD", slot |-> <<123456>>] }
\* Instants: within the first second, and on the third day.
ExportTimestamps == {1000, 1001, 176523004}
TokenSymbols == {TokenSymbol, Undefined}

\* The chains of n records that addEvent builds.
RECURSIVE ExportChains(_)
ExportChains(n) ==
    IF n = 0 THEN {<<>>}
    ELSE { Append(chain,
               [BuildRecord(IF chain = <<>> THEN 0 ELSE chain[Len(chain)].sequence,
                            IF chain = <<>> THEN GENESIS_HASH ELSE chain[Len(chain)].hash,
                            TokenMint, e, t) EXCEPT !.tokenSymbol = sym]) :
             chain \in ExportChains(n - 1), e \in ExportEvents,
             t \in ExportTimestamps, sym \in TokenSymbols }

ExportIdle ==
    /\ exportRecords = <<>>
    /\ exportPhase = "idle"
    /\ exportJson = <<>>
    /\ importedRecords = <<>>

ExportInit ==
    /\ exportRecords \in UNION { ExportChains(n) : n \in 1 .. MaxExport }
    /\ exportPhase = "input"
    /\ exportJson = <<>>
    /\ importedRecords = <<>>

Export ==
    /\ exportPhase = "input"
    /\ exportJson' = exportChainToJSON(exportRecords)
    /\ exportPhase' = "exported"
    /\ UNCHANGED <<exportRecords, importedRecords>>

Import ==
    /\ exportPhase = "exported"
    /\ importedRecords' = importChainFromJSON(exportJson)
    /\ exportPhase' = "imported"
    /\ UNCHANGED <<exportRecords, exportJson>>

NextExport ==
    (Export \/ Import)
        /\ UNCHANGED <<pohVars, verVars, clsVars, ledgerVars, handlers, statsVars, pctVars, connVars, auxVars>>

(***************************************************************************)
(* WebSocketTracker (src/lib/websocket-tracker.ts): start, stop,           *)
(* forceReconnect, the reconnect-timer callback and the heartbeat tick,    *)
(* each cut at its awaits.                                                 *)
(***************************************************************************)
NewTracker ==
    [isRunning |-> FALSE, connectionState |-> "disconnected",
     reconnectAttempts |-> 0, isReconnecting |-> FALSE,
     reconnectTimeout |-> "null",      \* "null" | "pending" | "fired"
     heartbeatInterval |-> FALSE, bcSubscriptionId |-> FALSE]

IdlePc ==
    [start |-> "idle", stop |-> "idle", force |-> "idle", timer |-> "idle",
     heartbeat |-> "idle"]

TrackerInit ==
    /\ tracker = NewTracker
    /\ trackerPc = IdlePc
    /\ stopCalled = FALSE
    /\ stopReturned = FALSE

setConnectionState(t, state) == [t EXCEPT !.connectionState = state]

\* scheduleReconnect, up to the setTimeout.
scheduleReconnect(t) ==
    IF t.isReconnecting \/ ~t.isRunning THEN t
    ELSE IF t.reconnectAttempts >= MaxRetries THEN t
    ELSE [setConnectionState(t, "reconnecting") EXCEPT
              !.isReconnecting = TRUE,
              !.reconnectAttempts = @ + 1,
              !.reconnectTimeout = "pending"]

clearReconnectTimeout(t) ==
    [t EXCEPT !.reconnectTimeout = "null", !.isReconnecting = FALSE]

stopHeartbeat(t) == [t EXCEPT !.heartbeatInterval = FALSE]

startHeartbeat(t) == [t EXCEPT !.heartbeatInterval = TRUE]

\* disconnect, once its removeAccountChangeListener calls have resolved.
disconnect(t) == [t EXCEPT !.bcSubscriptionId = FALSE]

\* connect, from the return of fetchInitialBalances: the subscriptions and
\* "connected".
ConnectOk(t) ==
    [setConnectionState(t, "connected") EXCEPT
         !.bcSubscriptionId = TRUE, !.reconnectAttempts = 0]

\* connect's catch block: first "disconnected" ...
ConnectFailed(t) == setConnectionState(t, "disconnected")

\* ... then, in the same synchronous run, scheduleReconnect() if still running.
ConnectRetry(t) == IF t.isRunning THEN scheduleReconnect(t) ELSE t

\* A catch block of connect has set "disconnected" and not yet reached its
\* scheduleReconnect(): nothing else runs in between.
InCatch == trackerPc.start = "failed" \/ trackerPc.timer = "failed"

\* start(): the isRunning test and assignment, up to the first await.
StartCall ==
    /\ ~InCatch
    /\ trackerPc.start = "idle"
    /\ IF tracker.isRunning
       THEN UNCHANGED <<tracker, trackerPc, stopReturned>>
       ELSE /\ tracker' = [tracker EXCEPT !.isRunning = TRUE]
            /\ trackerPc' = [trackerPc EXCEPT !.start = "initializing"]
            /\ stopReturned' = FALSE
    /\ UNCHANGED stopCalled

\* start(): pohManager.initialize() has resolved; connect() runs to its await.
StartConnect ==
    /\ ~InCatch
    /\ trackerPc.start = "initializing"
    /\ tracker' = setConnectionState(tracker, "connecting")
    /\ trackerPc' = [trackerPc EXCEPT !.start = "connecting"]
    /\ UNCHANGED <<stopCalled, stopReturned>>

\* start(): connect() finishes, then startHeartbeat().
StartFinish(ok) ==
    /\ ~InCatch
    /\ trackerPc.start = "connecting"
    /\ IF ok
       THEN /\ tracker' = startHeartbeat(ConnectOk(tracker))
            /\ trackerPc' = [trackerPc EXCEPT !.start = "idle"]
       ELSE /\ tracker' = ConnectFailed(tracker)
            /\ trackerPc' = [trackerPc EXCEPT !.start = "failed"]
    /\ UNCHANGED <<stopCalled, stopReturned>>

\* start(): the rest of connect's catch block, then startHeartbeat().
StartRetry ==
    /\ trackerPc.start = "failed"
    /\ tracker' = startHeartbeat(ConnectRetry(tracker))
    /\ trackerPc' = [trackerPc EXCEPT !.start = "idle"]
    /\ UNCHANGED <<stopCalled, stopReturned>>

\* stop(): up to await this.disconnect().
StopCall ==
    /\ ~InCatch
    /\ trackerPc.stop = "idle"
    /\ stopCalled' = TRUE
    /\ IF ~tracker.isRunning
       THEN UNCHANGED <<tracker, trackerPc>>
       ELSE /\ tracker' = clearReconnectTimeout(
                              stopHeartbeat([tracker EXCEPT !.isRunning = FALSE]))
            /\ trackerPc' = [trackerPc EXCEPT !.stop = "disconnecting"]
    /\ UNCHANGED stopReturned

\* stop(): disconnect() has resolved; "disconnected"; return.
StopFinish ==
    /\ ~InCatch
    /\ trackerPc.stop = "disconnecting"
    /\ tracker' = setConnectionState(disconnect(tracker), "disconnected")
    /\ trackerPc' = [trackerPc EXCEPT !.stop = "idle"]
    /\ stopReturned' = TRUE
    /\ UNCHANGED stopCalled

\* forceReconnect(): up to await this.disconnect().
ForceCall ==
    /\ ~InCatch
    /\ trackerPc.force = "idle"
    /\ IF ~tracker.isRunning
       THEN UNCHANGED <<tracker, trackerPc>>
       ELSE /\ tracker' = clearReconnectTimeout(tracker)
            /\ trackerPc' = [trackerPc EXCEPT !.force = "disconnecting"]
    /\ UNCHANGED <<stopCalled, stopReturned>>

\* forceReconnect(): disconnect() has resolved; scheduleReconnect().
ForceFinish ==
    /\ ~InCatch
    /\ trackerPc.force = "disconnecting"
    /\ tracker' = scheduleReconnect(disconnect(tracker))
    /\ trackerPc' = [trackerPc EXCEPT !.force = "idle"]
    /\ UNCHANGED <<stopCalled, stopReturned>>

\* The reconnect timer fires: the callback up to await this.disconnect().
TimerFire ==
    /\ ~InCatch
    /\ tracker.reconnectTimeout = "pending"
    /\ trackerPc.timer = "idle"
    /\ tracker' = [tracker EXCEPT !.isReconnecting = FALSE, !.reconnectTimeout = "fired"]
    /\ trackerPc' = IF tracker.isRunning
                    THEN [trackerPc EXCEPT !.timer = "disconnecting"]
                    ELSE trackerPc
    /\ UNCHANGED <<stopCalled, stopReturned>>

\* The callback: disconnect() has resolved; connect() runs to its await.
TimerConnect ==
    /\ ~InCatch
    /\ trackerPc.timer = "disconnecting"
    /\ tracker' = setConnectionState(disconnect(tracker), "connecting")
    /\ trackerPc' = [trackerPc EXCEPT !.timer = "connecting"]
    /\ UNCHANGED <<stopCalled, stopReturned>>

\* The callback: connect() finishes (gap recovery changes none of these fields).
TimerFinish(ok) ==
    /\ ~InCatch
    /\ trackerPc.timer = "connecting"
    /\ IF ok
       THEN /\ tracker' = ConnectOk(tracker)
            /\ trackerPc' = [trackerPc EXCEPT !.timer = "idle"]
       ELSE /\ tracker' = ConnectFailed(tracker)
            /\ trackerPc' = [trackerPc EXCEPT !.timer = "failed"]
    /\ UNCHANGED <<stopCalled, stopReturned>>

\* The callback: the rest of connect's catch block.
TimerRetry ==
    /\ trackerPc.timer = "failed"
    /\ tracker' = ConnectRetry(tracker)
    /\ trackerPc' = [trackerPc EXCEPT !.timer = "idle"]
    /\ UNCHANGED <<stopCalled, stopReturned>>

\* A heartbeat tick: up to await this.connection.getSlot().
HeartbeatTick ==
    /\ ~InCatch
    /\ tracker.heartbeatInterval
    /\ trackerPc.heartbeat = "idle"
    /\ trackerPc' = IF ~tracker.isRunning \/ tracker.connectionState # "connected"
                    THEN trackerPc
                    ELSE [trackerPc EXCEPT !.heartbeat = "pinging"]
    /\ UNCHANGED <<tracker, stopCalled, stopReturned>>

\* The tick: getSlot() resolved, or rejected with the last response fresh or
\* stale.
HeartbeatReturn(ok, stale) ==
    /\ ~InCatch
    /\ trackerPc.heartbeat = "pinging"
    /\ tracker' = IF ~ok /\ stale THEN scheduleReconnect(tracker) ELSE tracker
    /\ trackerPc' = [trackerPc EXCEPT !.heartbeat = "idle"]
    /\ UNCHANGED <<stopCalled, stopReturned>>

NextTracker ==
    \/ StartCall /\ UNCHANGED <<pohVars, verVars, clsVars, ledgerVars, handlers, statsVars, pctVars, exportVars, auxVars>>
    \/ StartConnect /\ UNCHANGED <<pohVars, verVars, clsVars, ledgerVars, handlers, statsVars, pctVars, exportVars, auxVars>>
    \/ (\E ok \in BOOLEAN : StartFinish(ok))
        /\ UNCHANGED <<pohVars, verVars, clsVars, ledgerVars, handlers, statsVars, pctVars, exportVars, auxVars>>
    \/ StartRetry /\ UNCHANGED <<pohVars, verVars, clsVars, ledgerVars, handlers, statsVars, pctVars, exportVars, auxVars>>
    \/ StopCall /\ UNCHANGED <<pohVars, verVars, clsVars, ledgerVars, handlers, statsVars, pctVars, exportVars, auxVars>>
    \/ StopFinish /\ UNCHANGED <<pohVars, verVars, clsVars, ledgerVars, handlers, statsVars, pctVars, exportVars, auxVars>>
    \/ ForceCall /\ UNCHANGED <<pohVars, verVars, clsVars, ledgerVars, handlers, statsVars, pctVars, exportVars, auxVars>>
    \/ ForceFinish /\ UNCHANGED <<pohVars, verVars, clsVars, ledgerVars, handlers, statsVars, pctVars, exportVars, auxVars>>
    \/ TimerFire /\ UNCHANGED <<pohVars, verVars, clsVars, ledgerVars, handlers, statsVars, pctVars, exportVars, auxVars>>
    \/ TimerConnect /\ UNCHANGED <<pohVars, verVars, clsVars, ledgerVars, handlers, statsVars, pctVars, exportVars, auxVars>>
    \/ (\E ok \in BOOLEAN : TimerFinish(ok))
        /\ UNCHANGED <<pohVars, verVars, clsVars, ledgerVars, handlers, statsVars, pctVars, exportVars, auxVars>>
    \/ TimerRetry /\ UNCHANGED <<pohVars, verVars, clsVars, ledgerVars, handlers, statsVars, pctVars, exportVars, auxVars>>
    \/ HeartbeatTick /\ UNCHANGED <<pohVars, verVars, clsVars, ledgerVars, handlers, statsVars, pctVars, exportVars, auxVars>>
    \/ (\E ok, stale \in BOOLEAN : HeartbeatReturn(ok, stale))
        /\ UNCHANGED <<pohVars, verVars, clsVars, ledgerVars, handlers, statsVars, pctVars, exportVars, auxVars>>

(***************************************************************************)
(* WebSocketTracker: the recent-signature set and gap recovery, for the    *)
(* bonding-curve vault, with the reconnect-timer callback taken whole.     *)
(***************************************************************************)
RecentLimit == 100
maxGapRecoverySignatures == 50

GapSignatures == 1 .. MaxGapTx

Sources == {"vault", "wallet"}

\* A tracker that has connected, in dual-track mode, to a vault and a creator
\* wallet without transactions.  Every transaction of the model moves
\* lamports from the vault to the wallet, so it changes both accounts.
NewGap ==
    [chainHead |-> 0, subscribed |-> TRUE,
     pending |-> [vault |-> 0, wallet |-> 0],     \* account changes not yet notified
     inFlight |-> [vault |-> 0, wallet |-> 0],    \* handlers awaiting fetchRecentSignature
     recentSignatures |-> <<>>,
     lastSignatureSeen |-> [vault |-> 0, wallet |-> 0],  \* 0: no entry
     emitted |-> [sig \in GapSignatures |-> 0],   \* onFeeDetected calls of handleAccountChange
     unsignedEvents |-> 0,                        \* the same, without a signature
     recovered |-> [sig \in GapSignatures |-> 0], \* events with recoveredFromGap
     reconnects |-> 0]

GapInit == gap = NewGap

\* recentSignatures.add(signature), then the oldest is dropped above 100.
AddRecent(recent, signature) ==
    LET added == IF \E i \in DOMAIN recent : recent[i] = signature
                 THEN recent ELSE Append(recent, signature)
    IN  IF Len(added) > RecentLimit THEN Tail(added) ELSE added

\* A transaction lands on chain; the subscriptions, if any, will notify the
\* change of both accounts.
LandTx ==
    /\ gap.chainHead < MaxGapTx
    /\ gap' = [gap EXCEPT
           !.chainHead = @ + 1,
           !.pending = IF gap.subscribed
                       THEN [vault |-> @.vault + 1, wallet |-> @.wallet + 1] ELSE @]

\* handleAccountChange for a non-zero balance change, up to the await of
\* fetchRecentSignature.
Notify(source) ==
    /\ gap.subscribed
    /\ gap.pending[source] > 0
    /\ gap' = [gap EXCEPT !.pending[source] = @ - 1, !.inFlight[source] = @ + 1]

\* handleAccountChange after fetchRecentSignature, which returns the newest
\* signature of the address or null: deduplication, the PoH append and
\* onFeeDetected.
Resume(source, ok) ==
    /\ gap.inFlight[source] > 0
    /\ LET signature == gap.chainHead IN
       IF ~ok
       THEN gap' = [gap EXCEPT !.inFlight[source] = @ - 1, !.unsignedEvents = @ + 1]
       ELSE IF \E i \in DOMAIN gap.recentSignatures : gap.recentSignatures[i] = signature
       THEN gap' = [gap EXCEPT !.inFlight[source] = @ - 1]
       ELSE gap' = [gap EXCEPT
                !.inFlight[source] = @ - 1,
                !.recentSignatures = AddRecent(@, signature),
                !.lastSignatureSeen[source] = signature,
                !.emitted[signature] = @ + 1]

\* recoverVaultEvents: the signatures it emits, in the order of emission.
\* newSignatures.reverse() reverses the array in place.
Reversed(seq) == [i \in DOMAIN seq |-> seq[Len(seq) + 1 - i]]

recoverVaultEvents(chainHead, lastSignature) ==
    LET signatures == getTransactionHistory(chainHead, maxGapRecoverySignatures)
        found == {i \in DOMAIN signatures : signatures[i] = lastSignature}
        lastIndex == IF lastSignature = 0 \/ found = {} THEN 0 - 1
                     ELSE (CHOOSE i \in found : TRUE) - 1
    IN  IF signatures = <<>> THEN <<>>
        ELSE IF lastSignature # 0 /\ lastIndex = 0 THEN <<>>
        ELSE IF lastSignature # 0 /\ lastIndex > 0
             THEN Reversed(SubSeq(signatures, 1, lastIndex))
        ELSE Reversed(signatures)

\* The entry of lastSignatureSeen after recoverVaultEvents: newSignatures[0]
\* read after the in-place reverse.
LastSeenAfterRecovery(newSignatures, lastSeen) ==
    IF newSignatures = <<>> THEN lastSeen ELSE newSignatures[1]

RECURSIVE CountEach(_, _)
CountEach(counts, sigs) ==
    IF sigs = <<>> THEN counts
    ELSE CountEach([counts EXCEPT ![Head(sigs)] = @ + 1], Tail(sigs))

\* The reconnect-timer callback: the copy of lastSignatureSeen, disconnect(),
\* connect() (fetchInitialBalances stores the newest signature of each
\* address) and, when connected, recoverMissedEvents with the copy, which
\* recovers the vault.
Reconnect(ok) ==
    /\ gap.reconnects < MaxReconnects
    /\ LET lastSignatures == gap.lastSignatureSeen
           afterConnect == IF gap.chainHead > 0
                           THEN [vault |-> gap.chainHead, wallet |-> gap.chainHead]
                           ELSE gap.lastSignatureSeen
           newSignatures == recoverVaultEvents(gap.chainHead, lastSignatures.vault)
       IN  IF ok
           THEN gap' = [gap EXCEPT
                    !.reconnects = @ + 1,
                    !.subscribed = TRUE,
                    !.pending = [vault |-> 0, wallet |-> 0],
                    !.recentSignatures = <<>>,
                    !.recovered = CountEach(@, newSignatures),
                    !.lastSignatureSeen =
                        [afterConnect EXCEPT
                            !.vault = LastSeenAfterRecovery(newSignatures, @)]]
           ELSE gap' = [gap EXCEPT
                    !.reconnects = @ + 1,
                    !.subscribed = FALSE,
                    !.pending = [vault |-> 0, wallet |-> 0],
                    !.recentSignatures = <<>>]

NextGap ==
    \/ LandTx /\ UNCHANGED <<pohVars, verVars, clsVars, ledgerVars, handlers, statsVars, pctVars, exportVars, connVars, indexerRun, retryCall, detection>>
    \/ (\E source \in Sources : Notify(source))
        /\ UNCHANGED <<pohVars, verVars, clsVars, ledgerVars, handlers, statsVars, pctVars, exportVars, connVars, indexerRun, retryCall, detection>>
    \/ (\E source \in Sources, ok \in BOOLEAN : Resume(source, ok))
        /\ UNCHANGED <<pohVars, verVars, clsVars, ledgerVars, handlers, statsVars, pctVars, exportVars, connVars, indexerRun, retryCall, detection>>
    \/ (\E ok \in BOOLEAN : Reconnect(ok))
        /\ UNCHANGED <<pohVars, verVars, clsVars, ledgerVars, handlers, statsVars, pctVars, exportVars, connVars, indexerRun, retryCall, detection>>

(***************************************************************************)
(* Batch runs over a list of mints: runIndexer of the worker and GET of    *)
(* the sync route, each with its own indexToken.                           *)
(***************************************************************************)
\* What happens while one mint is indexed.
IndexOutcomes ==
    {"ok",          \* one new event is classified and saved
     "underivable", \* deriveCreatorVault returns null, or no creator wallet
     "setup",       \* getTokenByMint, getTokenMetadata or upsertToken throws
     "history",     \* getTransactionHistory throws
     "body",        \* getParsedTransactions throws
     "storage",     \* feeEvent.findMany or the recalculation throws
     "write"}       \* createFeeEvent throws

NoRun ==
    [entry |-> "none", pc |-> "idle", mints |-> 0, outcomes |-> <<>>,
     tokensProcessed |-> 0, newEventsFound |-> 0, errors |-> <<>>]

IndexerIdle == indexerRun = NoRun

\* indexToken of the worker: ensureTokenExists catches and returns null, the
\* rest runs in one try, a failing save is swallowed after allEvents.push.
indexToken(outcome) ==
    CASE outcome \in {"underivable", "setup"} ->
             [newEvents |-> 0, error |-> <<"setup">>, threw |-> FALSE]
      [] outcome \in {"history", "body", "storage"} ->
             [newEvents |-> 0, error |-> <<outcome>>, threw |-> FALSE]
      [] OTHER -> [newEvents |-> 1, error |-> <<>>, threw |-> FALSE]

\* indexToken of the sync route: no try around the awaits; only the save of
\* an event is guarded, and newEvents counts the saves that succeeded.
syncIndexToken(outcome) ==
    CASE outcome = "underivable" ->
             [newEvents |-> 0, error |-> <<"setup">>, threw |-> FALSE]
      [] outcome \in {"setup", "history", "body", "storage"} ->
             [newEvents |-> 0, error |-> <<>>, threw |-> TRUE]
      [] outcome = "write" -> [newEvents |-> 0, error |-> <<>>, threw |-> FALSE]
      [] OTHER -> [newEvents |-> 1, error |-> <<>>, threw |-> FALSE]

\* runIndexer(mints) or GET with a list of n valid mints is called.
RunStart(entry, n) ==
    /\ indexerRun.pc = "idle"
    /\ indexerRun.entry = "none"
    /\ indexerRun' = [NoRun EXCEPT !.entry = entry, !.pc = "loop", !.mints = n]

\* One pass of the loop of runIndexer.
RunIndexerStep(outcome) ==
    /\ indexerRun.entry = "worker"
    /\ indexerRun.pc = "loop"
    /\ Len(indexerRun.outcomes) < indexerRun.mints
    /\ LET result == indexToken(outcome) IN
       indexerRun' = [indexerRun EXCEPT
           !.outcomes = Append(@, outcome),
           !.tokensProcessed = @ + 1,
           !.newEventsFound = @ + result.newEvents,
           !.errors = IF result.error # <<>>
                      THEN Append(@, [mint |-> Len(indexerRun.outcomes) + 1,
                                      error |-> result.error[1]])
                      ELSE @]

\* One pass of the loop of GET; a throw of indexToken reaches the catch of
\* GET, which answers 500 "Sync failed".
SyncStep(outcome) ==
    /\ indexerRun.entry = "route"
    /\ indexerRun.pc = "loop"
    /\ Len(indexerRun.outcomes) < indexerRun.mints
    /\ LET result == syncIndexToken(outcome) IN
       IF result.threw
       THEN indexerRun' = [indexerRun EXCEPT
                !.outcomes = Append(@, outcome),
                !.pc = "failed"]
       ELSE indexerRun' = [indexerRun EXCEPT
                !.outcomes = Append(@, outcome),
                !.newEventsFound = @ + result.newEvents,
                !.errors = IF result.error # <<>>
                           THEN Append(@, [mint |-> Len(indexerRun.outcomes) + 1,
                                           error |-> result.error[1]])
                           ELSE @]

\* The loop is over: the summary is returned (GET reports mints.length as
\* tokensProcessed).
RunReturn ==
    /\ indexerRun.pc = "loop"
    /\ Len(indexerRun.outcomes) = indexerRun.mints
    /\ indexerRun' = [indexerRun EXCEPT
           !.pc = "returned",
           !.tokensProcessed = IF indexerRun.entry = "route" THEN indexerRun.mints ELSE @]

NextIndexer ==
    \/ (\E entry \in {"worker", "route"}, n \in 1 .. MaxMints : RunStart(entry, n))
        /\ UNCHANGED <<pohVars, verVars, clsVars, ledgerVars, handlers, statsVars, pctVars, exportVars, connVars, gap, retryCall, detection>>
    \/ (\E outcome \in IndexOutcomes : RunIndexerStep(outcome))
        /\ UNCHANGED <<pohVars, verVars, clsVars, ledgerVars, handlers, statsVars, pctVars, exportVars, connVars, gap, retryCall, detection>>
    \/ (\E outcome \in IndexOutcomes : SyncStep(outcome))
        /\ UNCHANGED <<pohVars, verVars, clsVars, ledgerVars, handlers, statsVars, pctVars, exportVars, connVars, gap, retryCall, detection>>
    \/ RunReturn
        /\ UNCHANGED <<pohVars, verVars, clsVars, ledgerVars, handlers, statsVars, pctVars, exportVars, connVars, gap, retryCall, detection>>

(***************************************************************************)
(* Helius client: withRetry around one upstream call.                      *)
(***************************************************************************)
CallTypes == {"rpc", "rest", "das"}

DEFAULT_RETRY_CONFIG ==
    [maxRetries |-> 5,
     retryableStatusCodes |-> {429, 500, 502, 503, 504, 520, 521, 522, 523, 524}]

RETRY_CONFIGS(callType) ==
    CASE callType = "rpc" -> [DEFAULT_RETRY_CONFIG EXCEPT !.maxRetries = 4]
      [] callType = "rest" -> [DEFAULT_RETRY_CONFIG EXCEPT !.maxRetries = 5]
      [] OTHER -> [DEFAULT_RETRY_CONFIG EXCEPT !.maxRetries = 4]

\* HTTP statuses the upstream answers with.
StatusCodes == {400, 404, 429, 500, 501, 503}

\* How one attempt of the upstream call fails.
NoFailure == [kind |-> "none", code |-> 0]
Failures ==
    {[kind |-> k, code |-> 0] : k \in {"timeout", "reset", "malformed"}}
        \cup {[kind |-> "status", code |-> c] : c \in StatusCodes}

\* The error the operation throws into withRetry.  getParsedTransactions
\* builds a HeliusApiError with the status of the response; the operations
\* of getTransactionHistory and getTokenMetadata wrap whatever the client
\* library threw into HeliusApiError(message), without a status.  The message
\* carries one of the network words only for a connection failure.
OperationError(callType, failure) ==
    [statusCode |-> IF callType = "rest" /\ failure.kind = "status" THEN failure.code ELSE 0,
     isRateLimit |-> callType = "rest" /\ failure.kind = "status" /\ failure.code = 429,
     isTimeout |-> failure.kind = "timeout",
     networkMessage |-> failure.kind = "reset"]

isRetryableError(error, config) ==
    \/ error.isRateLimit
    \/ error.isTimeout
    \/ (error.statusCode # 0 /\ error.statusCode \in config.retryableStatusCodes)
    \/ error.networkMessage

NoCall == [callType |-> "none", pc |-> "idle", attempt |-> 0, attempts |-> 0,
           lastFailure |-> NoFailure]

RetryIdle == retryCall = NoCall

\* withRetry(operation, name, config) is entered.
CallStart(callType) ==
    /\ retryCall.pc = "idle"
    /\ retryCall' = [NoCall EXCEPT !.callType = callType, !.pc = "attempt"]

\* One pass of the loop of withRetry: the operation returns, or it throws and
\* the error is rethrown or the backoff sleep starts.
Attempt(ok, failure) ==
    /\ retryCall.pc = "attempt"
    /\ LET config == RETRY_CONFIGS(retryCall.callType)
           error == OperationError(retryCall.callType, failure)
       IN  IF ok
           THEN retryCall' = [retryCall EXCEPT !.pc = "returned", !.attempts = @ + 1]
           ELSE IF retryCall.attempt >= config.maxRetries \/ ~isRetryableError(error, config)
           THEN retryCall' = [retryCall EXCEPT !.pc = "thrown", !.attempts = @ + 1,
                                               !.lastFailure = failure]
           ELSE retryCall' = [retryCall EXCEPT !.pc = "sleep", !.attempts = @ + 1,
                                               !.lastFailure = failure]

\* The backoff sleep is over; the loop goes on with attempt + 1.
SleepDone ==
    /\ retryCall.pc = "sleep"
    /\ retryCall' = [retryCall EXCEPT !.pc = "attempt", !.attempt = @ + 1]

NextRetry ==
    \/ (\E callType \in CallTypes : CallStart(callType))
        /\ UNCHANGED <<pohVars, verVars, clsVars, ledgerVars, handlers, statsVars, pctVars, exportVars, connVars, gap, indexerRun, detection>>
    \/ (\E ok \in BOOLEAN, failure \in Failures : Attempt(ok, failure))
        /\ UNCHANGED <<pohVars, verVars, clsVars, ledgerVars, handlers, statsVars, pctVars, exportVars, connVars, gap, indexerRun, detection>>
    \/ SleepDone
        /\ UNCHANGED <<pohVars, verVars, clsVars, ledgerVars, handlers, statsVars, pctVars, exportVars, connVars, gap, indexerRun, detection>>

(***************************************************************************)
(* Fee-model detection (fee-source.ts) and the sources tracked after it:   *)
(* FeeSourceManager.getConfig / getTrackingAddresses and                   *)
(* WebSocketTracker.detectAndConfigureFeeModel.                            *)
(***************************************************************************)
VaultSigLimit == 20
WalletSigLimit == 50

\* A signature list, newest first, of n entries whose newest has the block
\* time recent (0: blockTime is null).
SigList(n, recent) ==
    [i \in 1 .. n |-> [blockTime |-> IF recent = 0 THEN 0 ELSE recent + 1 - i]]

BlockTimeOrZero(sigs) == IF sigs = <<>> THEN 0 ELSE sigs[1].blockTime

\* detectFeeModel, from the results of its four fetches.
\* (DetectFeeModelByBalance: the variant that reads activity off the balances.)
DetectFeeModelByBalance(vaultSigs, walletSigs, vaultLamports, walletLamports) ==
    LET vaultTxCount == vaultLamports
        walletTxCount == walletLamports
        model == IF vaultTxCount > 0 /\ walletTxCount = 0 THEN "vault_pda"
                 ELSE IF vaultTxCount = 0 /\ walletTxCount > 0 THEN "creator_wallet"
                 ELSE IF vaultTxCount > 0 /\ walletTxCount > 0 THEN "hybrid"
                 ELSE "unknown"
    IN  [model |-> model, primarySource |-> "vault",
         vaultPda |-> [address |-> CreatorVault, hasActivity |-> vaultTxCount > 0,
                       recentTxCount |-> vaultTxCount, balance |-> vaultLamports],
         creatorWallet |-> [address |-> CreatorWallet, hasActivity |-> walletTxCount > 0,
                            recentTxCount |-> walletTxCount, balance |-> walletLamports]]
detectFeeModel(vaultSigs, walletSigs, vaultLamports, walletLamports) ==
    LET vaultTxCount == Len(vaultSigs)
        walletTxCount == Len(walletSigs)
        vaultRecent == BlockTimeOrZero(vaultSigs)
        walletRecent == BlockTimeOrZero(walletSigs)
        model == IF vaultTxCount > 0 /\ walletTxCount = 0 THEN "vault_pda"
                 ELSE IF vaultTxCount = 0 /\ walletTxCount > 0 THEN "creator_wallet"
                 ELSE IF vaultTxCount > 0 /\ walletTxCount > 0 THEN "hybrid"
                 ELSE "unknown"
        primarySource == IF model = "vault_pda" THEN "vault"
                         ELSE IF model = "creator_wallet" THEN "wallet"
                         ELSE IF model = "hybrid"
                              THEN (IF vaultRecent > walletRecent THEN "vault" ELSE "wallet")
                         ELSE "vault"
    IN  [model |-> model, primarySource |-> primarySource,
         vaultPda |-> [address |-> CreatorVault, hasActivity |-> vaultTxCount > 0,
                       recentTxCount |-> vaultTxCount, balance |-> vaultLamports],
         creatorWallet |-> [address |-> CreatorWallet, hasActivity |-> walletTxCount > 0,
                            recentTxCount |-> walletTxCount, balance |-> walletLamports]]

\* buildDualTrackConfig(...).sources for a detected (or defaulted) model.
buildDualTrackConfig(detectedModel) ==
    LET vaultSource == [type |-> "vault", address |-> CreatorVault,
                        isActive |-> detectedModel \in {"vault_pda", "hybrid"}]
        walletSource == [type |-> "wallet", address |-> CreatorWallet,
                         isActive |-> detectedModel \in {"creator_wallet", "hybrid"}]
        first == IF detectedModel # "creator_wallet" THEN <<vaultSource>> ELSE <<>>
        second == IF detectedModel # "vault_pda" THEN Append(first, walletSource) ELSE first
        Has(sources, type) == \E i \in DOMAIN sources : sources[i].type = type
        third == IF detectedModel = "unknown" /\ ~Has(second, "vault")
                 THEN Append(second, [vaultSource EXCEPT !.isActive = TRUE]) ELSE second
    IN  IF detectedModel = "unknown" /\ ~Has(third, "wallet")
        THEN Append(third, [walletSource EXCEPT !.isActive = TRUE]) ELSE third

\* FeeSourceManager.getTrackingAddresses: the addresses of the active sources.
getTrackingAddresses(sources) ==
    {sources[i].address : i \in {j \in DOMAIN sources : sources[j].isActive}}

\* WebSocketTracker.detectAndConfigureFeeModel: sourcesTracked for a detected
\* model (no AMM vault configured).
detectAndConfigureFeeModel(model, trackVault, trackWallet) ==
    CASE model = "vault_pda" -> IF trackVault THEN <<"BC">> ELSE <<>>
      [] model = "creator_wallet" -> IF trackWallet THEN <<"WALLET">> ELSE <<>>
      [] OTHER -> (IF trackVault THEN <<"BC">> ELSE <<>>)
                  \o (IF trackWallet THEN <<"WALLET">> ELSE <<>>)

NoDetection ==
    [vaultSigs |-> <<>>, walletSigs |-> <<>>, vaultLamports |-> 0, walletLamports |-> 0,
     trackVault |-> TRUE, trackWallet |-> TRUE,
     result |-> <<>>,             \* detectFeeModel called directly
     config |-> <<>>,             \* FeeSourceManager.configs entry of the token
     trackingAddresses |-> {},
     trackerModel |-> "unknown", sourcesTracked |-> <<>>, trackerDone |-> FALSE]

DetectIdle == detection = NoDetection

\* The chain state the detector will see, and the tracker's dual-track options.
DetectInit ==
    \E vn \in {0, 1, VaultSigLimit}, wn \in {0, 1, WalletSigLimit},
       vr \in RecentBlockTimes, wr \in RecentBlockTimes,
       vb \in {0, MaxAmount}, wb \in {0, MaxAmount},
       tv \in BOOLEAN, tw \in BOOLEAN :
        detection = [NoDetection EXCEPT
            !.vaultSigs = SigList(vn, vr), !.walletSigs = SigList(wn, wr),
            !.vaultLamports = vb, !.walletLamports = wb,
            !.trackVault = tv, !.trackWallet = tw]

Detect ==
    /\ detection.result = <<>>
    /\ detection' = [detection EXCEPT
           !.result = <<detectFeeModel(detection.vaultSigs, detection.walletSigs,
                                       detection.vaultLamports, detection.walletLamports)>>]

\* FeeSourceManager.getConfig without a cached entry, then
\* getTrackingAddresses; a throw of detectFeeModel defaults to hybrid.
GetConfig(ok) ==
    /\ detection.config = <<>>
    /\ LET detectedModel ==
               IF ok THEN detectFeeModel(detection.vaultSigs, detection.walletSigs,
                              detection.vaultLamports, detection.walletLamports).model
               ELSE "hybrid"
           sources == buildDualTrackConfig(detectedModel)
       IN  detection' = [detection EXCEPT
               !.config = <<[detectedModel |-> detectedModel, sources |-> sources]>>,
               !.trackingAddresses = getTrackingAddresses(sources)]

\* WebSocketTracker.start with autoDetect: detectAndConfigureFeeModel.
DetectAndConfigure(ok) ==
    /\ ~detection.trackerDone
    /\ LET model ==
               IF ok THEN detectFeeModel(detection.vaultSigs, detection.walletSigs,
                              detection.vaultLamports, detection.walletLamports).model
               ELSE "hybrid"
       IN  detection' = [detection EXCEPT
               !.trackerDone = TRUE,
               !.trackerModel = model,
               !.sourcesTracked =
                   IF ok THEN detectAndConfigureFeeModel(model, detection.trackVault,
                                                         detection.trackWallet)
                   ELSE <<"BC">> \o (IF detection.trackWallet THEN <<"WALLET">> ELSE <<>>)]

NextDetect ==
    \/ Detect /\ UNCHANGED <<pohVars, verVars, clsVars, ledgerVars, handlers, statsVars, pctVars, exportVars, connVars, gap, indexerRun, retryCall>>
    \/ (\E ok \in BOOLEAN : GetConfig(ok))
        /\ UNCHANGED <<pohVars, verVars, clsVars, ledgerVars, handlers, statsVars, pctVars, exportVars, connVars, gap, indexerRun, retryCall>>
    \/ (\E ok \in BOOLEAN : DetectAndConfigure(ok))
        /\ UNCHANGED <<pohVars, verVars, clsVars, ledgerVars, handlers, statsVars, pctVars, exportVars, connVars, gap, indexerRun, retryCall>>

AuxIdle == GapInit /\ IndexerIdle /\ RetryIdle /\ DetectIdle

(***************************************************************************)
(* Specifications                                                          *)
(***************************************************************************)
Init == PoHInit /\ VerIdle /\ ClsIdle /\ LedgerInit /\ HandlersInit /\ StatsIdle /\ PctIdle /\ ExportIdle /\ TrackerInit /\ AuxIdle
InitClassify == PoHInit /\ VerIdle /\ ClsInit /\ LedgerInit /\ HandlersInit /\ StatsIdle /\ PctIdle /\ ExportIdle /\ TrackerInit /\ AuxIdle

SpecPoH == Init /\ [][NextPoH]_vars
SpecVerify == Init /\ [][NextVerify]_vars
SpecClassify == InitClassify /\ [][NextClassify]_vars
InitAmounts == PoHInit /\ VerIdle /\ ClsInitAmounts /\ LedgerInit /\ HandlersInit /\ StatsIdle /\ PctIdle /\ ExportIdle /\ TrackerInit /\ AuxIdle
SpecAmounts == InitAmounts /\ [][NextClassify]_vars
InitStats == PoHInit /\ VerIdle /\ ClsIdle /\ LedgerInit /\ HandlersInit /\ StatsInit /\ PctIdle /\ ExportIdle /\ TrackerInit /\ AuxIdle
SpecStats == InitStats /\ [][NextStats]_vars
InitPct ==
    PoHInit /\ VerIdle /\ ClsIdle /\ LedgerInit /\ HandlersInit /\ StatsIdle /\ PctInit /\ ExportIdle /\ TrackerInit /\ AuxIdle
SpecPct == InitPct /\ [][NextPct]_vars
InitExport ==
    PoHInit /\ VerIdle /\ ClsIdle /\ LedgerInit /\ HandlersInit /\ StatsIdle /\ PctIdle /\ ExportInit /\ TrackerInit /\ AuxIdle
SpecExport == InitExport /\ [][NextExport]_vars
SpecLedger == Init /\ [][NextLedger]_vars
InitVault ==
    /\ PoHInit /\ VerIdle /\ ClsIdle /\ HandlersInit /\ StatsIdle /\ PctIdle /\ ExportIdle /\ TrackerInit /\ AuxIdle
    /\ \E n \in 0 .. MaxHistory : LedgerInitAt(n)
SpecVault == InitVault /\ [][NextLedger]_vars
SpecTracker == Init /\ [][NextTracker]_vars
SpecGap == Init /\ [][NextGap]_vars
SpecIndexer == Init /\ [][NextIndexer]_vars
SpecRetry == Init /\ [][NextRetry]_vars
InitDetect ==
    /\ PoHInit /\ VerIdle /\ ClsIdle /\ LedgerInit /\ HandlersInit /\ StatsIdle /\ PctIdle /\ ExportIdle /\ TrackerInit
    /\ GapInit /\ IndexerIdle /\ RetryIdle /\ DetectInit
SpecDetect == InitDetect /\ [][NextDetect]_vars
SpecRealtime == Init /\ [][NextRealtime]_vars

(***************************************************************************)
(* Claims                                                                  *)
(***************************************************************************)

\* C1: after initialize() and any sequence of awaited addEvent calls (failed
\* persists included) the stored records of the token are a valid chain:
\* sequences exactly 1..N, record 1 linked to the genesis hash, every later
\* record linked to the hash before it, every hash the digest of its record,
\* and verifyChain over the stored records returns valid: true.
C1_ChainIntegrity ==
    LET chain == getFullChain(pohRecords) IN
    /\ \A i \in DOMAIN chain :
        /\ chain[i].sequence = i
        /\ chain[i].hash = generateHash(chain[i])
        /\ chain[i].prevHash = IF i = 1 THEN GENESIS_HASH ELSE chain[i - 1].hash
    /\ verifyChain(pohRecords) = VerifyOk

\* C1 witness: a manager that was initialized appended again after a failed
\* persist, and the chain holds at least two records.
C1_Witness ==
    /\ pohInitialized
    /\ persistFailures >= 1
    /\ addOutcome = "returned"
    /\ Len(pohRecords) >= 2

\* C2: changing the hash, the prevHash or the sequence of one record of a
\* valid chain makes verifyChain return valid: false with invalidAt at or
\* before the index of the changed record.
C2_TamperDetectedAtOrBefore ==
    vField \in {"hash", "prevHash", "sequence"} =>
        /\ vResult.valid = FALSE
        /\ vResult.invalidAt # <<>>
        /\ vResult.invalidAt[1] <= vIndex

\* The first native transfer into the vault whose source is not the creator
\* wallet, as the claims describe it (0 when there is none).
QualifyingInflows(tx) ==
    {i \in DOMAIN tx.nativeTransfers :
        /\ tx.nativeTransfers[i].toUserAccount = CreatorVault
        /\ tx.nativeTransfers[i].fromUserAccount # CreatorWallet}
VaultOutflows(tx) ==
    {i \in DOMAIN tx.nativeTransfers : tx.nativeTransfers[i].fromUserAccount = CreatorVault}

\* C9: an error-free transaction with a native transfer into the vault from a
\* source other than the creator wallet is classified collect, with
\* amountLamports the amount of the first such transfer, also when the
\* transaction holds an outflow from the vault.
C9_CollectFirstInflow ==
    (clsPhase = "done" /\ ~clsTx.isNull /\ ~clsTx.transactionError
        /\ QualifyingInflows(clsTx) # {}) =>
        /\ clsResult # <<>>
        /\ clsResult[1].type = "collect"
        /\ \E i \in QualifyingInflows(clsTx) :
            /\ \A j \in QualifyingInflows(clsTx) : i <= j
            /\ clsResult[1].amountLamports = clsTx.nativeTransfers[i].amount.val

\* C9 witness: classified collect although the transaction also moves funds
\* out of the vault, and a later qualifying inflow carries another amount.
C9_Witness ==
    /\ clsPhase = "done"
    /\ clsResult # <<>>
    /\ clsResult[1].type = "collect"
    /\ VaultOutflows(clsTx) # {}
    /\ \E i, j \in QualifyingInflows(clsTx) :
        i < j /\ clsTx.nativeTransfers[i].amount.val # clsTx.nativeTransfers[j].amount.val

\* C10: classifyTransaction returns no event exactly when the transaction is
\* missing or carries an error marker, or has neither a qualifying inflow nor
\* a native transfer out of the vault; a transaction whose only transfers are
\* creator wallet -> vault gives no event, and every error-free transaction
\* with an outflow from the vault gives one.
C10_NoEventExactlyWhen ==
    clsPhase = "done" =>
        /\ (clsResult = <<>>) <=>
              \/ clsTx.isNull
              \/ clsTx.transactionError
              \/ (QualifyingInflows(clsTx) = {} /\ VaultOutflows(clsTx) = {})
        /\ (/\ ~clsTx.isNull
            /\ clsTx.nativeTransfers # <<>>
            /\ \A i \in DOMAIN clsTx.nativeTransfers :
                /\ clsTx.nativeTransfers[i].fromUserAccount = CreatorWallet
                /\ clsTx.nativeTransfers[i].toUserAccount = CreatorVault)
           => clsResult = <<>>
        /\ (~clsTx.isNull /\ ~clsTx.transactionError /\ VaultOutflows(clsTx) # {})
           => clsResult # <<>>

\* C10 witness: an error-free transaction whose only native transfer is
\* creator wallet -> vault was classified and gave no event.
C10_Witness ==
    /\ clsPhase = "done"
    /\ ~clsTx.isNull /\ ~clsTx.transactionError
    /\ Len(clsTx.nativeTransfers) = 1
    /\ clsTx.nativeTransfers[1].fromUserAccount = CreatorWallet
    /\ clsTx.nativeTransfers[1].toUserAccount = CreatorVault
    /\ clsResult = <<>>

\* The number of fee-event rows carrying a signature.
RowsWithSignature(signature) ==
    Cardinality({i \in DOMAIN feeEvents : feeEvents[i].signature = signature})

\* C3: appending to the ledger is idempotent on the signature: no two rows ever
\* share a signature, and a write of an already persisted signature (by the
\* batch indexer or by the daemon) leaves the rows as they were, is not turned
\* into a failure of the run, and leaves the recomputed aggregate what it was
\* after the first append.
C3_AppendIdempotent ==
    [][ /\ \A i, j \in DOMAIN feeEvents' :
              feeEvents'[i].signature = feeEvents'[j].signature => i = j
        /\ (/\ lastWrite'.outcome = "duplicate"
            /\ \/ bPc = "event" /\ bAllEvents' # bAllEvents
               \/ rtCount' # rtCount /\ lastWrite'.by = "daemon")
           => /\ feeEvents' = feeEvents
              /\ Cardinality({i \in DOMAIN feeEvents' :
                                 feeEvents'[i].signature = lastWrite'.signature}) = 1
              /\ bError' = bError
              /\ bFailure' = bFailure
              /\ bPc' \in {"idle", "event", "group", "recalc"}
              /\ recalculateTokenStats(feeEvents') = recalculateTokenStats(feeEvents) ]_vars

\* C3 witness: a batch run wrote a signature the daemon had persisted in the
\* meantime, went on, recomputed the aggregate and returned without error.
C3_Witness ==
    /\ lastWrite.by = "batch"
    /\ lastWrite.outcome = "duplicate"
    /\ RowsWithSignature(lastWrite.signature) = 1
    /\ bPc = "returned"
    /\ ~bError
    /\ tokenStats = recalculateTokenStats(feeEvents)

\* C4: when a batch run returns without error the stored aggregate is the
\* recomputation over the persisted fee events: the three totals are the sums
\* per event type and held is max(0, collected - burned - withdrawn).
C4_AggregateAfterRun ==
    (bPc = "returned" /\ ~bError) =>
        LET collected == SumOf(feeEvents, "collect")
            burned == SumOf(feeEvents, "burn")
            withdrawn == SumOf(feeEvents, "withdraw")
        IN  /\ tokenStats.totalFeesCollected = collected
            /\ tokenStats.totalFeesBurned = burned
            /\ tokenStats.totalFeesWithdrawn = withdrawn
            /\ tokenStats.totalFeesHeld =
                  IF collected - burned - withdrawn < 0 THEN 0
                  ELSE collected - burned - withdrawn

\* C5: when a batch run that failed part-way ends (a body fetch failed after
\* an earlier group was processed, or one event write failed), the aggregate
\* is consistent with the events that were persisted.  Runs of a token the
\* daemon has not touched.
C5_AggregateAfterPartialFailure ==
    (/\ bPc = "returned"
     /\ rtCount = 0
     /\ \/ bFailure = "fetch" /\ bIndex > 0
        \/ bFailure = "write")
    => /\ tokenStats.totalFeesCollected = SumOf(feeEvents, "collect")
       /\ tokenStats.totalFeesBurned = SumOf(feeEvents, "burn")
       /\ tokenStats.totalFeesWithdrawn = SumOf(feeEvents, "withdraw")

\* C6: every persisted fee event that carries a transaction signature has
\* exactly one PoH record of its token with the same signature, whichever
\* path persisted it.
C6_OnePoHRecordPerEvent ==
    \A i \in DOMAIN feeEvents :
        feeEvents[i].signature > 0 =>
        Cardinality({j \in DOMAIN pohRecords :
                        /\ pohRecords[j].tokenMint = TokenMint
                        /\ pohRecords[j].signature = feeEvents[i].signature}) = 1

\* The addEvent calls of the token that have read the tail and not yet moved it.
InFlight == {k \in Notifications : handlers[k].pc \in {"trkCreate", "dmnCreate"}}

\* C7: PoH appends are serialized per token: never two addEvent calls of the
\* same mint in flight together, on the tracker's manager or on the daemon's,
\* and no addEvent in flight holds a sequence number that is already stored
\* for the token.
C7_AppendsSerialized ==
    /\ Cardinality(InFlight) <= 1
    /\ \A k \in InFlight :
        ~\E i \in DOMAIN pohRecords :
            /\ pohRecords[i].tokenMint = TokenMint
            /\ pohRecords[i].sequence = handlers[k].record[1].sequence

\* C8: within the token's realtime stream, a notification delivered earlier
\* gets the lower PoH sequence number and the earlier fee-event row.
C8_ArrivalOrder ==
    \A a, b \in Notifications :
        a < b =>
            /\ (handlers[a].pohSequence # 0 /\ handlers[b].pohSequence # 0)
                  => handlers[a].pohSequence < handlers[b].pohSequence
            /\ (handlers[a].feeRow # 0 /\ handlers[b].feeRow # 0)
                  => handlers[a].feeRow < handlers[b].feeRow

\* The transaction shows none of the swap patterns: no Jupiter or Raydium
\* program among its accounts or instructions, no swap keyword in its text.
SwapPrograms == {JUPITER_V6_PROGRAM_ID, RAYDIUM_AMM_PROGRAM_ID}
SwapPattern(tx) ==
    \/ \E i \in DOMAIN tx.accountData : tx.accountData[i] \in SwapPrograms
    \/ \E i \in DOMAIN tx.instructions : tx.instructions[i].programId \in SwapPrograms
    \/ tx.description \in SwapDescriptions

\* The transaction reaches the outflow rules: error-free, no qualifying
\* inflow, a native transfer out of the vault.
OutflowCase(tx) ==
    /\ ~tx.isNull
    /\ ~tx.transactionError
    /\ QualifyingInflows(tx) = {}
    /\ VaultOutflows(tx) # {}

\* The first native transfer out of the vault.
FirstOutflow(tx) ==
    tx.nativeTransfers[CHOOSE i \in VaultOutflows(tx) : \A j \in VaultOutflows(tx) : i <= j]

\* C11: an error-free transaction without qualifying inflow, with an outflow
\* from the vault and without swap pattern is classified withdraw, with the
\* outflow's amount, whatever the destination, and without burned mint or
\* burned amount.
C11_WithdrawWithoutSwap ==
    (clsPhase = "done" /\ OutflowCase(clsTx) /\ ~SwapPattern(clsTx)) =>
        /\ clsResult # <<>>
        /\ clsResult[1].type = "withdraw"
        /\ clsResult[1].amountLamports = FirstOutflow(clsTx).amount.val
        /\ clsResult[1].burnedTokenMint = <<>>
        /\ clsResult[1].burnedTokenAmount = <<>>

\* C11 witness: a withdraw to an address other than the creator wallet, in a
\* transaction that carries a burn annotation but no swap pattern.
C11_Witness ==
    /\ clsPhase = "done"
    /\ OutflowCase(clsTx)
    /\ ~SwapPattern(clsTx)
    /\ clsTx.burnEvent # <<>>
    /\ FirstOutflow(clsTx).toUserAccount = OtherAddress
    /\ clsResult # <<>>
    /\ clsResult[1].type = "withdraw"

\* Burn evidence for the tracked mint, in the order burn instruction, transfer
\* to the incinerator address, burn-amount annotation; <<>> when there is none,
\* else the burned amount the evidence carries.
BurnEvidence(tx) ==
    LET tt == tx.tokenTransfers
        burnInstruction == \E i \in DOMAIN tx.instructions :
                               /\ tx.instructions[i].programId = TOKEN_PROGRAM_ID
                               /\ "burn" \in tx.instructions[i].innerTypes
        burned == {i \in DOMAIN tt : tt[i].mint = TokenMint
                                     /\ tt[i].toUserAccount \in {"", Undefined}}
        incinerated == {i \in DOMAIN tt : tt[i].mint = TokenMint
                                          /\ tt[i].toUserAccount = BURN_ADDRESS}
    IN  IF burnInstruction /\ burned # {}
        THEN <<tt[CHOOSE i \in burned : \A j \in burned : i <= j].tokenAmount.val>>
        ELSE IF incinerated # {}
        THEN <<tt[CHOOSE i \in incinerated : \A j \in incinerated : i <= j].tokenAmount.val>>
        ELSE IF tx.burnEvent # <<>> THEN <<tx.burnEvent[1].val>>
        ELSE <<>>

C13_AmountsNonNegative ==
    (clsPhase = "done" /\ clsResult # <<>>) =>
        /\ clsResult[1].amountLamports >= 0
        /\ clsResult[1].burnedTokenAmount # <<>> => clsResult[1].burnedTokenAmount[1] >= 0

\* The three totals of calculateEventStats equal those of the ledger aggregate.
SameTotals ==
    /\ statsResult.totalCollected = statsLedger.totalFeesCollected
    /\ statsResult.totalBurned = statsLedger.totalFeesBurned
    /\ statsResult.totalWithdrawn = statsLedger.totalFeesWithdrawn

AggregateOf(events) == recalculateTokenStats(AppendAll(<<>>, events))

\* C15: after the appends and the recompute the stored burnPercentage lies in
\* [0, 100] (in hundredths of a percent: 0 .. 10000), is 0 when totalCollected
\* is 0, and does not decrease when one more burn event is appended.
C15_BurnPercentageRange ==
    statsPhase = "done" =>
        /\ statsLedger.burnPercentage >= 0
        /\ statsLedger.burnPercentage <= 10000
        /\ statsLedger.totalFeesCollected >= statsLedger.totalFeesBurned
        /\ statsLedger.totalFeesCollected = 0 => statsLedger.burnPercentage = 0
        /\ \A e \in StatsEvents :
               e.type = "burn" =>
                   AggregateOf(Append(statsEvents, e)).burnPercentage
                       >= statsLedger.burnPercentage

\* C16: for totalCollected > 0 calculateBurnPercentage returns
\* 100 * totalBurned / totalCollected rounded to the nearest hundredth (in
\* hundredths of a percent: the integer nearest to 10000 * burned / collected),
\* and 0 when totalCollected = 0.
C16_RoundToNearest ==
    pctPhase = "done" =>
        IF pctCollected = 0 THEN pctResult = 0
        ELSE /\ 2 * (10000 * pctBurned - pctResult * pctCollected) <= pctCollected
             /\ 2 * (pctResult * pctCollected - 10000 * pctBurned) <= pctCollected

\* C17: importing an exported non-empty chain gives back the records, field by
\* field: amounts and instants included.
C17_RoundTrip ==
    exportPhase = "imported" => importedRecords = exportRecords

\* C17 witness: a two-record chain with a multi-digit amount, an instant with
\* milliseconds, an absent slot and an absent token symbol has gone round.
C17_Witness ==
    /\ exportPhase = "imported"
    /\ Len(exportRecords) = 2
    /\ exportRecords[1].amountLamports = 1500000000
    /\ exportRecords[1].timestamp = 176523004
    /\ exportRecords[2].slot = <<>>
    /\ exportRecords[2].tokenSymbol = Undefined
    /\ exportJson[1]["amountLamports"] = <<"1", "5", "0", "0", "0", "0", "0", "0", "0", "0">>
    /\ exportJson[1]["timestamp"].day = 3
    /\ "slot" \notin DOMAIN exportJson[2]

\* The transitions of the connection state machine as specified.
AllowedTransitions ==
    { <<"disconnected", "connecting">>, <<"connecting", "connected">>,
      <<"connected", "reconnecting">>, <<"reconnecting", "connected">>,
      <<"reconnecting", "disconnected">> }

\* C18: connectionState changes only along disconnected -> connecting,
\* connecting -> connected, connected -> reconnecting, reconnecting -> connected
\* and reconnecting -> disconnected, or to disconnected in the last step of
\* stop().
C18_OnlyAllowedTransitions ==
    [][ tracker'.connectionState # tracker.connectionState =>
            \/ <<tracker.connectionState, tracker'.connectionState>> \in AllowedTransitions
            \/ /\ trackerPc.stop = "disconnecting"
               /\ trackerPc'.stop = "idle"
               /\ tracker'.connectionState = "disconnected" ]_vars

\* Nothing is in flight and no timer is pending: only a call from outside can
\* change the tracker, and forceReconnect() cannot, the retries being used up.
Quiescent ==
    /\ trackerPc = IdlePc
    /\ tracker.reconnectTimeout # "pending"
    /\ tracker.reconnectAttempts >= MaxRetries

\* C19: while stop() has not been called, a running tracker is never left
\* disconnected with no connection attempt in flight or scheduled.
C19_NeverStuckDisconnected ==
    ~stopCalled =>
        ~(tracker.isRunning /\ tracker.connectionState = "disconnected" /\ Quiescent)

\* C20: once stop() has returned, and until start() is called again, there is
\* no subscription, no heartbeat interval, no pending reconnect timer, and
\* connectionState is disconnected.
C20_CleanAfterStop ==
    stopReturned =>
        /\ ~tracker.bcSubscriptionId
        /\ ~tracker.heartbeatInterval
        /\ tracker.reconnectTimeout # "pending"
        /\ tracker.connectionState = "disconnected"

\* C29: verifyChain reports a non-empty list valid only if its first record by
\* sequence is the genesis record (sequence 1, prevHash the genesis sentinel);
\* so a valid chain without its first k >= 1 records is reported invalid; the
\* empty list is reported valid with no invalidAt.
C29_GenesisRequired ==
    /\ (vField # "none" /\ vTampered # <<>> /\ vResult.valid) =>
           LET first == SortBySequence(vTampered)[1]
           IN  first.sequence = 1 /\ first.prevHash = GENESIS_HASH
    /\ vField = "truncated" => ~vResult.valid
    /\ (vField = "intact" /\ vTampered = <<>>) => vResult = VerifyOk

\* C30: an addEvent whose persist fails throws and leaves lastSequence, lastHash
\* and the stored records as they were; an addEvent that persists stores a
\* record with the sequence after the manager's tail, linked to the tail hash,
\* which is the genesis hash or the hash of a stored record, and only then
\* moves the tail to it.
C30_TailMovesOnlyOnPersist ==
    [][ /\ persistFailures' # persistFailures =>
            /\ addOutcome' = "threw"
            /\ lastSequence' = lastSequence
            /\ lastHash' = lastHash
            /\ pohRecords' = pohRecords
        /\ Len(pohRecords') > Len(pohRecords) =>
            LET record == pohRecords'[Len(pohRecords')] IN
            /\ addOutcome' = "returned"
            /\ record.sequence = lastSequence + 1
            /\ record.sequence = Len(pohRecords')
            /\ record.prevHash = lastHash
            /\ record.prevHash \in
                   {GENESIS_HASH} \cup {pohRecords[i].hash : i \in DOMAIN pohRecords}
            /\ lastSequence' = record.sequence
            /\ lastHash' = record.hash ]_vars

\* C30 witness: the only stored record was appended after a failed persist and
\* carries the sequence number of the failed attempt.
C30_Witness ==
    /\ persistFailures = 1
    /\ addOutcome = "returned"
    /\ Len(pohRecords) = 1
    /\ pohRecords[1].sequence = 1
    /\ lastSequence = 1

\* C23: when the handling of a realtime event ends and handleFeeDetected has
\* persisted its fee event, the stored aggregate is the recomputation over
\* the stored fee events, that event included.
C23_RecomputedAfterAppend ==
    [][ \A k \in Notifications :
            (/\ handlers[k].pc # "done"
             /\ handlers'[k].pc = "done"
             /\ handlers'[k].feeRow > 0)
            => tokenStats' = recalculateTokenStats(feeEvents') ]_vars

\* The type the Classifier gives the transaction with signature sig.
ClassifierType(sig) ==
    LET classified == classifyTransaction(LedgerTx(sig), CreatorVault, CreatorWallet, TokenMint)
    IN  IF classified = <<>> THEN "none" ELSE classified[1].type

\* |delta| of the vault balance in the transaction with signature sig.
AbsChange(sig) ==
    LET change == NetChange(LedgerTx(sig).nativeTransfers)
    IN  IF change > 0 THEN change ELSE 0 - change

\* C24: a realtime event carries |delta| as its amount, and an event with a
\* negative delta whose transaction the Classifier labels burn is recorded as
\* burn both in the ledger and in the PoH chain (in the ledger, unless the
\* transaction could not be fetched, when the type without the Classifier
\* stands).
C24_BurnRecordedAsBurn ==
    /\ \A i \in DOMAIN pohRecords :
           LET r == pohRecords[i] IN
           r.signature > 0 =>
               /\ r.amountLamports = AbsChange(r.signature)
               /\ ClassifierType(r.signature) = "burn" => r.eventType = "burn"
    /\ \A i \in DOMAIN feeEvents :
           LET f == feeEvents[i] IN
           (f.signature > 0 /\ ClassifierType(f.signature) = "burn") =>
               \/ f.eventType = "burn"
               \/ f.eventType = VerifiedEventType("withdraw", <<f.signature>>,
                                                  LedgerTx(f.signature), FALSE)

\* C21: a signature handled before a disconnect/reconnect cycle is still a
\* duplicate afterwards (fewer than 100 signatures were added since), so
\* handleAccountChange emits at most one event, and makes at most one PoH
\* append, for a signature.
C21_DedupAcrossReconnects ==
    \A sig \in GapSignatures : gap.emitted[sig] <= 1

\* C22: a reconnect that succeeds emits, as recovered, every transaction newer
\* than the last-seen signature, and none at or before it; each transaction
\* is recovered once over all reconnects.
C22_RecoveredExactlyOnce ==
    [][ (gap'.reconnects > gap.reconnects /\ gap'.subscribed) =>
            \A sig \in GapSignatures :
                IF sig > gap.lastSignatureSeen.vault /\ sig <= gap.chainHead
                THEN gap'.recovered[sig] = 1
                ELSE gap'.recovered[sig] = gap.recovered[sig] ]_vars

\* C25: a batch run over a list of mints ends by returning its summary: every
\* mint was processed, and each mint whose indexing failed (token setup,
\* history fetch, body fetch, storage) has an entry in errors; the run does
\* not stop at the first failure.
C25_RunAlwaysCompletes ==
    LET run == indexerRun
        Failed(i) == run.outcomes[i] \in {"underivable", "setup", "history", "body", "storage"}
    IN  (run.pc # "idle" /\ Len(run.outcomes) > 0) =>
            /\ run.pc \in {"loop", "returned"}
            /\ \A i \in DOMAIN run.outcomes :
                   Failed(i) <=> \E j \in DOMAIN run.errors : run.errors[j].mint = i
            /\ run.pc = "returned" => run.tokensProcessed = run.mints

C28_UnknownTracksBoth ==
    /\ (detection.config # <<>> /\ detection.config[1].detectedModel = "unknown")
           => {CreatorVault, CreatorWallet} \subseteq detection.trackingAddresses
    /\ (detection.trackerDone /\ detection.trackerModel = "unknown"
            /\ detection.trackVault /\ detection.trackWallet)
           => \A source \in {"BC", "WALLET"} :
                  \E i \in DOMAIN detection.sourcesTracked : detection.sourcesTracked[i] = source

\* C26: a call through withRetry is attempted at most maxRetries + 1 times; a
\* timeout, 429, 5xx or connection-reset failure is rethrown only when no
\* attempt remains; a malformed-input or other 4xx failure is never followed
\* by a retry.
C26_RetryOnlyTransient ==
    LET config == RETRY_CONFIGS(retryCall.callType)
        f == retryCall.lastFailure
        Transient == \/ f.kind \in {"timeout", "reset"}
                     \/ f.kind = "status" /\ (f.code = 429 \/ (f.code >= 500 /\ f.code <= 599))
    IN  retryCall.pc # "idle" =>
            /\ retryCall.attempts <= config.maxRetries + 1
            /\ (retryCall.pc = "thrown" /\ Transient)
                   => retryCall.attempts = config.maxRetries + 1
            /\ retryCall.pc = "sleep" => Transient

====
